---- MODULE Spec2Model ----
(***************************************************************************)
(* A model of fork-observer: one network, its header graph (petgraph       *)
(* DiGraph + hash index), the header store, the snapshot cache, the        *)
(* poller tasks (one per node), the pool-id worker and the change          *)
(* channel.                                                                *)
(*                                                                         *)
(* Every critical section (one acquisition of the graph, caches or store   *)
(* mutex) is one atomic action; node fetches that read nothing of the      *)
(* shared state are folded into the critical section that follows them.    *)
(***************************************************************************)
EXTENDS Integers, Sequences, FiniteSets, TLC

(***************************************************************************)
(* The block world the nodes report.  A header is its prev hash and a      *)
(* nonce; heights are the true heights of the blocks.                      *)
(*                                                                         *)
(*      Z(1) -- R(2) -- P(3) -- A(4)                                       *)
(*                         \___ B(4)                                       *)
(*                                                                         *)
(* (height in parentheses).  STALE is an old fork tip at height 1 that a   *)
(* Bitcoin Core node still lists in getchaintips.                          *)
(***************************************************************************)
BZ == 1
BR == 2
BP == 3
BA == 4
BB == 5
STALE == 6

WorldBlocks == {BZ, BR, BP, BA, BB}

PrevOf(h) == CASE h = BZ -> 0
               [] h = BR -> BZ
               [] h = BP -> BR
               [] h = BA -> BP
               [] h = BB -> BP
               [] OTHER -> 0

HeightOf(h) == CASE h = BZ -> 1
                 [] h = BR -> 2
                 [] h = BP -> 3
                 [] h = BA -> 4
                 [] h = BB -> 4
                 [] OTHER -> 1

\* bitcoin Header: only the fields the program reads
HeaderOf(h) == [prev_blockhash |-> PrevOf(h), nonce |-> h]

\* Header::block_hash(): a deterministic, collision-free function of the header
block_hash(header) == header.nonce

\* network.min_fork_height and network.max_interesting_heights of the modelled network
min_fork_height == 2

max_interesting_heights == 2

\* the sentinel of "no block": what a failed fetch yields in the model
NoBlock == 0

(***************************************************************************)
(* Configuration: the nodes of the network, in configured order.  Node 1   *)
(* is a Bitcoin Core node queried over RPC (one header per request), node  *)
(* 2 a Bitcoin Core node with use_rest (batch header fetch).               *)
(***************************************************************************)
Nodes == {1, 2}

\* the node of a network whose only node is an Electrum server
ElectrumNode == 3

\* capabilities().batch_header_fetch: use_rest of a Bitcoin Core node, true for Electrum
batch_header_fetch(n) == n \in {2, ElectrumNode}

\* HeaderFetchType of the node: Hash for Bitcoin Core, btcd and Esplora, Height for
\* Electrum
fetch_by_hash(n) == n # ElectrumNode

\* STEP_SIZE of new_active_headers, scaled from 2000 to the size of the world
STEP_SIZE == 2

\* the bound of new_headers below which active headers get a miner lookup
MINER_LIMIT == 1

DEFAULT_EMPTY_MINER == ""

MINER_UNKNOWN == "Unknown"

VERSION_UNKNOWN == "unknown"

(***************************************************************************)
(* Sequences                                                               *)
(***************************************************************************)
Range(s) == {s[i] : i \in DOMAIN s}

Max(a, b) == IF a >= b THEN a ELSE b

SetMax(S) == CHOOSE x \in S : \A y \in S : y <= x

SetMin(S) == CHOOSE x \in S : \A y \in S : x <= y

RECURSIVE SeqOfSet(_)
\* the elements of a set of integers or of records with a unique height, ascending
SeqOfSet(S) == IF S = {} THEN <<>>
               ELSE LET m == SetMin(S) IN <<m>> \o SeqOfSet(S \ {m})

RECURSIVE InsertSorted(_, _)
\* Vec::sort_by_key(|h| h.height) is stable: x goes after the elements of equal height
InsertSorted(s, x) == IF s = <<>> THEN <<x>>
                      ELSE IF x.height < s[1].height THEN <<x>> \o s
                      ELSE <<s[1]>> \o InsertSorted(Tail(s), x)

RECURSIVE SortByHeight(_)
SortByHeight(s) == IF s = <<>> THEN <<>>
                   ELSE InsertSorted(SortByHeight(SubSeq(s, 1, Len(s) - 1)), s[Len(s)])

(***************************************************************************)
(* The header graph: TreeInfo = (DiGraph<HeaderInfo, bool>, HashMap).      *)
(* nodes[i] is the weight of NodeIndex i-1, edges the edge list in         *)
(* insertion order, index the hash -> NodeIndex map.                       *)
(***************************************************************************)
EmptyIndex == [h \in {} |-> 0]

EmptyTree == [nodes |-> <<>>, edges |-> <<>>, index |-> EmptyIndex]

HeaderInfo(height, header, miner) == [height |-> height, header |-> header, miner |-> miner]

\* DiGraph::add_node plus HashMap::insert
AddNode(t, h) ==
    [t EXCEPT !.nodes = Append(t.nodes, h),
              !.index = [k \in DOMAIN t.index \cup {block_hash(h.header)} |->
                           IF k = block_hash(h.header) THEN Len(t.nodes) + 1 ELSE t.index[k]]]

\* DiGraph::add_edge in the place of update_edge: a parallel edge for a known pair
add_edge(edges, a, b) == Append(edges, <<a, b>>)

\* DiGraph::update_edge(a, b, false): add the edge unless it exists already
update_edge(edges, a, b) ==
    IF \E i \in DOMAIN edges : edges[i] = <<a, b>> THEN edges ELSE Append(edges, <<a, b>>)

\* the insert of one header without the contains_key test
InsertUnchecked(t, h) == AddNode(t, h)

\* the insert of one header in insert_new_headers_into_tree: only if not indexed yet
InsertHeader(t, h) ==
    IF block_hash(h.header) \in DOMAIN t.index THEN t ELSE AddNode(t, h)

RECURSIVE InsertAll(_, _)
InsertAll(t, hs) == IF hs = <<>> THEN t ELSE InsertAll(InsertHeader(t, hs[1]), Tail(hs))

\* the connect step for one header: an edge from the indexed parent, if any
ConnectHeader(t, current) ==
    IF current.header.prev_blockhash \in DOMAIN t.index
    THEN [t EXCEPT !.edges = update_edge(t.edges, t.index[current.header.prev_blockhash],
                                          t.index[block_hash(current.header)])]
    ELSE t

RECURSIVE ConnectAll(_, _)
ConnectAll(t, hs) == IF hs = <<>> THEN t ELSE ConnectAll(ConnectHeader(t, hs[1]), Tail(hs))

\* an insertion that adds the vertices of the batch and none of its edges
insert_without_edges(t, new_headers) == InsertAll(t, new_headers)

\* insert_new_headers_into_tree: the graph afterwards
insert_new_headers_into_tree(t, new_headers) == ConnectAll(InsertAll(t, new_headers), new_headers)

\* its return value tree_changed: some header was not indexed before
TreeChanged(t, new_headers) ==
    \E i \in DOMAIN new_headers : block_hash(new_headers[i].header) \notin DOMAIN t.index

(***************************************************************************)
(* The header store: the rows of table headers of this network.           *)
(***************************************************************************)
\* bitcoin::consensus::encode::serialize_hex and consensus::deserialize of a header
serialize_hex(header) == <<header.prev_blockhash, header.nonce>>

deserialize(bytes) == [prev_blockhash |-> bytes[1], nonce |-> bytes[2]]

\* INSERT OR IGNORE with PRIMARY KEY (network, hash, header)
InsertRow(rows, info) ==
    IF \E r \in rows : r.hash = block_hash(info.header) /\ r.header = serialize_hex(info.header)
    THEN rows
    ELSE rows \cup {[height |-> info.height, hash |-> block_hash(info.header),
                     header |-> serialize_hex(info.header)]}

RECURSIVE write_to_db(_, _)
write_to_db(rows, new_headers) ==
    IF new_headers = <<>> THEN rows
    ELSE write_to_db(InsertRow(rows, new_headers[1]), Tail(new_headers))

RECURSIVE RowsAscending(_)
\* SELECT height, header ... ORDER BY height ASC (rows of equal height by hash)
RowsAscending(rows) ==
    IF rows = {} THEN <<>>
    ELSE LET r == CHOOSE x \in rows : \A y \in rows :
                      x.height < y.height \/ (x.height = y.height /\ x.hash <= y.hash)
         IN <<r>> \o RowsAscending(rows \ {r})

\* load_header_infos; the miner comes from the miner column (update_miner)
load_header_infos(rows, miners) ==
    LET s == RowsAscending(rows) IN
    [i \in DOMAIN s |-> HeaderInfo(s[i].height, deserialize(s[i].header),
                                   IF s[i].hash \in DOMAIN miners THEN miners[s[i].hash]
                                   ELSE DEFAULT_EMPTY_MINER)]

RECURSIVE LoadAdd(_, _)
\* load_treeinfos, first pass: add_node and index every loaded header
LoadAdd(t, hs) == IF hs = <<>> THEN t ELSE LoadAdd(AddNode(t, hs[1]), Tail(hs))

\* load_treeinfos: add all, then connect by prev hash
load_treeinfos(rows, miners) ==
    LET hs == load_header_infos(rows, miners) IN ConnectAll(LoadAdd(EmptyTree, hs), hs)

(***************************************************************************)
(* petgraph: the graph operations strip_tree and recent_forks use.  A      *)
(* graph g has g.nodes (weights by index) and g.edges (in insertion        *)
(* order).                                                                 *)
(***************************************************************************)
Reverse(s) == [i \in DOMAIN s |-> s[Len(s) + 1 - i]]

\* the sources of the edges into v, most recently added edge first
IncomingOf(g, v) ==
    LET es == SelectSeq(g.edges, LAMBDA e : e[2] = v) IN Reverse([i \in DOMAIN es |-> es[i][1]])

\* the targets of the edges out of v, most recently added edge first
OutgoingOf(g, v) ==
    LET es == SelectSeq(g.edges, LAMBDA e : e[1] = v) IN Reverse([i \in DOMAIN es |-> es[i][2]])

\* the indices i..n that satisfy Test, ascending
IndicesWhere(n, i, Test(_)) == SelectSeq([k \in 1..(n - i + 1) |-> k + i - 1], Test)

\* Graph::externals(Incoming): the nodes without incoming edge, by index
Roots(g) == IndicesWhere(Len(g.nodes), 1, LAMBDA v : IncomingOf(g, v) = <<>>)

RECURSIVE DfsRun(_, _, _, _)
\* petgraph::visit::Dfs: pop; if not discovered, mark, push the undiscovered successors
DfsRun(g, stack, discovered, order) ==
    IF stack = <<>> THEN order
    ELSE LET node == stack[Len(stack)]
             rest == SubSeq(stack, 1, Len(stack) - 1)
         IN IF node \in discovered THEN DfsRun(g, rest, discovered, order)
            ELSE LET disc == discovered \cup {node}
                     succ == SelectSeq(OutgoingOf(g, node), LAMBDA w : w \notin disc)
                 IN DfsRun(g, rest \o succ, disc, Append(order, node))

Dfs(g, start) == DfsRun(g, <<start>>, {}, <<>>)

\* Graph::filter_map with an edge map that keeps every edge between kept nodes
FilterMap(g, Keep(_)) ==
    LET kept   == IndicesWhere(Len(g.nodes), 1, LAMBDA v : Keep(g.nodes[v]))
        new(v) == CHOOSE i \in DOMAIN kept : kept[i] = v
        es     == SelectSeq(g.edges, LAMBDA e : e[1] \in Range(kept) /\ e[2] \in Range(kept))
    IN [nodes |-> [i \in DOMAIN kept |-> g.nodes[kept[i]]],
        edges |-> [i \in DOMAIN es |-> <<new(es[i][1]), new(es[i][2])>>]]

(***************************************************************************)
(* headertree.rs                                                           *)
(***************************************************************************)
\* usize::MAX, the prev_id of a root (the largest integer of the model checker)
USIZE_MAX == 2147483647

RECURSIVE LargestOf(_, _)
\* .rev().take(k): the k largest elements of a set
LargestOf(S, k) ==
    IF k = 0 \/ S = {} THEN {} ELSE {SetMax(S)} \cup LargestOf(S \ {SetMax(S)}, k - 1)

\* sorted_interesting_heights (as a set: it is only searched with contains)
sorted_interesting_heights(t, mih, tip_heights) ==
    IF Len(t.nodes) = 0 THEN {}
    ELSE LET heights == {t.nodes[i].height : i \in DOMAIN t.nodes}
             heights_with_multiple_blocks ==
                 {h \in heights : Cardinality({i \in DOMAIN t.nodes : t.nodes[i].height = h}) > 1}
             max_height == SetMax(heights)
         IN LargestOf(heights_with_multiple_blocks \cup tip_heights \cup {max_height}, mih)

\* a filter that keeps one header below an interesting height instead of two
KeepHeaderNear(interesting, header) == \E x \in -1..1 : (header.height - x) \in interesting

\* the filter of strip_tree: x in -2..=1, interesting_heights.contains(height - x)
KeepHeader(interesting, header) == \E x \in -2..1 : (header.height - x) \in interesting

RECURSIVE DeepestOf(_, _, _, _)
\* the first header of the Dfs order whose height exceeds every earlier one (and 0)
DeepestOf(g, order, max_height, best) ==
    IF order = <<>> THEN best
    ELSE IF g.nodes[order[1]].height > max_height
         THEN DeepestOf(g, Tail(order), g.nodes[order[1]].height, order[1])
         ELSE DeepestOf(g, Tail(order), max_height, best)

\* a reconnect that links the first two headers of the stripped graph whatever they are
LinkFirstTwo(g, roots, prev) ==
    IF Len(g.nodes) < 2 THEN g ELSE [g EXCEPT !.edges = Append(g.edges, <<1, 2>>)]

RECURSIVE Reconnect(_, _, _)
\* the loop over the roots: connect each root to prev_header_to_connect_to (0: None)
Reconnect(g, roots, prev) ==
    IF roots = <<>> THEN g
    ELSE LET g1    == IF prev # 0 THEN [g EXCEPT !.edges = Append(g.edges, <<prev, roots[1]>>)]
                      ELSE g
             prev1 == DeepestOf(g1, Dfs(g1, roots[1]), 0, 0)
         IN Reconnect(g1, Tail(roots), prev1)

RECURSIVE SortIdxByHeight(_, _)
\* roots.sort_by_key(|idx| striped_tree[*idx].height), stable
SortIdxByHeight(g, idxs) ==
    IF idxs = <<>> THEN <<>>
    ELSE LET s == SortByHeight([i \in DOMAIN idxs |->
                                   [height |-> g.nodes[idxs[i]].height, idx |-> idxs[i]]])
         IN [i \in DOMAIN s |-> s[i].idx]

HeaderInfoJson(header_info, id, prev_id) ==
    [id |-> id, prev_id |-> prev_id, height |-> header_info.height,
     hash |-> block_hash(header_info.header),
     prev_blockhash |-> header_info.header.prev_blockhash, miner |-> header_info.miner]

\* strip_tree after sorted_interesting_heights: filter, reconnect the roots, emit.
\* A header with several incoming neighbours panics: panic is TRUE and nothing is returned.
StripWith(t, interesting) ==
    LET striped == FilterMap(t, LAMBDA header : KeepHeader(interesting, header))
        g       == Reconnect(striped, SortIdxByHeight(striped, Roots(striped)), 0)
        panic   == \E v \in DOMAIN g.nodes : Len(IncomingOf(g, v)) > 1
    IN [panic   |-> panic,
        headers |-> IF panic THEN {}
                    ELSE {HeaderInfoJson(g.nodes[v], v - 1,
                                         IF IncomingOf(g, v) = <<>> THEN USIZE_MAX
                                         ELSE IncomingOf(g, v)[Len(IncomingOf(g, v))] - 1) :
                          v \in DOMAIN g.nodes}]

\* strip_tree when the graph does not change between its two critical sections
strip_tree(t, mih, tip_heights) == StripWith(t, sorted_interesting_heights(t, mih, tip_heights))

MAX_FORKS_IN_CACHE == 50

RECURSIVE ChainLinksOf(_, _)
\* every vertex that has a child taken for a fork
ChainLinksOf(g, order) ==
    IF order = <<>> THEN <<>>
    ELSE LET out == OutgoingOf(g, order[1])
             f   == IF Len(out) > 0
                    THEN <<[common |-> g.nodes[order[1]],
                            children |-> [i \in DOMAIN out |-> g.nodes[out[i]]]]>>
                    ELSE <<>>
         IN f \o ChainLinksOf(g, Tail(order))

RECURSIVE ForksOf(_, _)
\* the forks found along a Dfs order
ForksOf(g, order) ==
    IF order = <<>> THEN <<>>
    ELSE LET out == OutgoingOf(g, order[1])
             f   == IF Len(out) > 1
                    THEN <<[common |-> g.nodes[order[1]],
                            children |-> [i \in DOMAIN out |-> g.nodes[out[i]]]]>>
                    ELSE <<>>
         IN f \o ForksOf(g, Tail(order))

RECURSIVE ForksOfRoots(_, _)
ForksOfRoots(g, roots) ==
    IF roots = <<>> THEN <<>>
    ELSE ForksOf(g, Dfs(g, roots[1])) \o ForksOfRoots(g, Tail(roots))

RECURSIVE InsertFork(_, _)
InsertFork(s, f) == IF s = <<>> THEN <<f>>
                    ELSE IF f.common.height < s[1].common.height THEN <<f>> \o s
                    ELSE <<s[1]>> \o InsertFork(Tail(s), f)

\* the forks left in the order the search found them
UnsortedForks(s) == s

RECURSIVE SortForks(_)
\* forks.sort_by_key(|f| f.common.height), stable
SortForks(s) == IF s = <<>> THEN <<>>
                ELSE InsertFork(SortForks(SubSeq(s, 1, Len(s) - 1)), s[Len(s)])

\* recent_forks: all forks, highest common first, at most how_many
recent_forks(t, how_many) ==
    LET r == Reverse(SortForks(ForksOfRoots(t, Roots(t))))
    IN SubSeq(r, 1, IF Len(r) < how_many THEN Len(r) ELSE how_many)

(***************************************************************************)
(* update_cache: one operator per CacheUpdate variant.  A cache is         *)
(* [header_infos_json, node_data, forks, recent_miners]; header_infos_json *)
(* is a set (CacheUpdate::HeaderTree rebuilds it from a HashMap, so its    *)
(* order carries no meaning), recent_miners a list of <<hash, miner>>.     *)
(***************************************************************************)
RECENT_MINERS_LIMIT == 5

\* HeaderInfoJson::update_miner on the entry found by hash
SetMinerOf(hij, hash, miner) ==
    {IF h.hash = hash THEN [h EXCEPT !.miner = miner] ELSE h : h \in hij}

\* a full list that drops the pushed entry instead of its oldest one
PushKeepOldest(recent, hash, miner) ==
    LET r == Append(recent, <<hash, miner>>)
    IN IF Len(r) > RECENT_MINERS_LIMIT THEN SubSeq(r, 1, RECENT_MINERS_LIMIT) ELSE r

\* recent_miners.push(..); if len > 5 { remove(0) }
PushRecentMiner(recent, hash, miner) ==
    LET r == Append(recent, <<hash, miner>>)
    IN IF Len(r) > RECENT_MINERS_LIMIT THEN Tail(r) ELSE r

\* CacheUpdate::HeaderMiner
ApplyHeaderMiner(c, header_info) ==
    [c EXCEPT !.header_infos_json = SetMinerOf(c.header_infos_json,
                                               block_hash(header_info.header), header_info.miner),
              !.recent_miners = PushRecentMiner(c.recent_miners,
                                                block_hash(header_info.header), header_info.miner)]

\* the new list published as it came
NoSplice(hij, recent) == hij

RECURSIVE SpliceMiners(_, _)
\* for (hash, miner) in recent_miners: map.entry(hash).and_modify(update_miner)
SpliceMiners(hij, recent) ==
    IF recent = <<>> THEN hij
    ELSE SpliceMiners(SetMinerOf(hij, recent[1][1], recent[1][2]), Tail(recent))

\* CacheUpdate::HeaderTree
ApplyHeaderTree(c, header_infos_json, forks) ==
    [c EXCEPT !.header_infos_json = SpliceMiners(header_infos_json, c.recent_miners),
              !.forks = forks]

\* the min_height of CacheUpdate::NodeTips: 0 for an empty header list
MinHeightOf(hij) == IF hij = {} THEN 0 ELSE SetMin({h.height : h \in hij})

\* the tips CacheUpdate::NodeTips keeps
RelevantTips(hij, tips) == SelectSeq(tips, LAMBDA t : t.height >= MinHeightOf(hij))

\* CacheUpdate::NodeTips
ApplyNodeTips(c, node_id, tips) ==
    [c EXCEPT !.node_data[node_id].tips = RelevantTips(c.header_infos_json, tips)]

\* a NodeReachability update that leaves the flag as it is
IgnoreReachability(c, node_id, reachable) == c

\* CacheUpdate::NodeReachability
ApplyNodeReachability(c, node_id, reachable) ==
    [c EXCEPT !.node_data[node_id].reachable = reachable]

\* CacheUpdate::NodeVersion
ApplyNodeVersion(c, node_id, version) ==
    [c EXCEPT !.node_data[node_id].version = version]

\* populate_cache: the cache of the network at startup
populate_cache_for(t, nodes) ==
    [header_infos_json |-> strip_tree(t, max_interesting_heights, {}).headers,
     node_data |-> [n \in nodes |-> [tips |-> <<>>, version |-> VERSION_UNKNOWN,
                                     reachable |-> TRUE]],
     forks |-> recent_forks(t, MAX_FORKS_IN_CACHE),
     recent_miners |-> <<>>]

\* the cache of the network with the two Bitcoin Core nodes
populate_cache(t) == populate_cache_for(t, Nodes)

\* tip_heights: the heights of all tips of all nodes in the cache
tip_heights(c) ==
    UNION {{c.node_data[n].tips[i].height : i \in DOMAIN c.node_data[n].tips} : n \in DOMAIN c.node_data}

(***************************************************************************)
(* parse_config.  A configuration is the list of its [[networks]] tables,  *)
(* each [id, nodes] with nodes the list of its [[networks.nodes]] tables   *)
(* [id, parses]; parses says whether parse_toml_node accepts the table     *)
(* (backend name, credentials).  The result is [status, networks].         *)
(***************************************************************************)
ConfigError(e) == [status |-> e, networks |-> <<>>]

\* a loop over toml_network.nodes that takes every node that parses, whatever its id
accept_nodes(toml_nodes, node_ids) ==
    IF \E i \in DOMAIN toml_nodes : ~toml_nodes[i].parses
    THEN [status |-> "NodeError", ids |-> <<>>]
    ELSE [status |-> "Ok", ids |-> node_ids \o [i \in DOMAIN toml_nodes |-> toml_nodes[i].id]]

RECURSIVE parse_nodes(_, _)
\* the loop over toml_network.nodes: the ids of the nodes, or the error it returns
parse_nodes(toml_nodes, node_ids) ==
    IF toml_nodes = <<>> THEN [status |-> "Ok", ids |-> node_ids]
    ELSE LET toml_node == Head(toml_nodes) IN
         IF ~toml_node.parses THEN [status |-> "NodeError", ids |-> <<>>]
         ELSE IF toml_node.id \notin Range(node_ids)
              THEN parse_nodes(Tail(toml_nodes), Append(node_ids, toml_node.id))
              ELSE [status |-> "DuplicateNodeId", ids |-> <<>>]

RECURSIVE parse_networks(_, _, _)
\* the loop over toml_config.networks
parse_networks(toml_networks, network_ids, networks) ==
    IF toml_networks = <<>>
    THEN IF networks = <<>> THEN ConfigError("NoNetworks")
         ELSE [status |-> "Ok", networks |-> networks]
    ELSE LET toml_network == Head(toml_networks)
             nodes == parse_nodes(toml_network.nodes, <<>>)
         IN IF nodes.status # "Ok" THEN ConfigError(nodes.status)
            ELSE IF toml_network.id \notin Range(network_ids)
                 THEN parse_networks(Tail(toml_networks), Append(network_ids, toml_network.id),
                                     Append(networks, [id |-> toml_network.id, nodes |-> nodes.ids]))
                 ELSE ConfigError("DuplicateNetworkId")

parse_config(config) == parse_networks(config, <<>>, <<>>)

\* the configuration of one network with the given nodes
ConfigOf(nodes) == <<[id |-> 1, nodes |-> [i \in 1..Len(nodes) |-> [id |-> nodes[i], parses |-> TRUE]]]>>

\* the loader of a running program: its configuration was accepted
Loaded(nodes) == [config |-> ConfigOf(SeqOfSet(nodes)), result |-> parse_config(ConfigOf(SeqOfSet(nodes)))]

(***************************************************************************)
(* Bounds of the model                                                     *)
(***************************************************************************)
\* ticks of all pollers together
MaxTicks == 2

\* changes of a node's active chain
MaxReorgs == 1

\* failures of the environment: a node fetch, a store write, a coinbase lookup
MaxFaults == 1

(***************************************************************************)
(* State                                                                   *)
(***************************************************************************)
VARIABLES
    active,       \* environment: the active tip of every node
    tree,         \* the header graph of the network (behind the graph mutex)
    db,           \* the rows of the header store
    db_miner,     \* the miner column of the rows, by hash
    caches,       \* the cache of the network (behind the caches mutex)
    pool_id_rx,   \* the hashes in the pool-id channel
    tipchanges,   \* the number of network ids sent on the change channel
    poller,       \* per node: the poller task's position and locals (in SpecWorker: the sweep task's)
    worker,       \* the pool-id worker's position and locals
    budget,       \* what the bounds have left
    hist,         \* history of the cache updates and broadcasts (not program state)
    locks,        \* the owners of the three mutexes and where each task is in its lock protocol
    loader        \* the configuration text given to the program and the result of parse_config

vars == <<active, tree, db, db_miner, caches, pool_id_rx, tipchanges, poller, worker, budget, hist, locks, loader>>

(***************************************************************************)
(* The nodes                                                               *)
(***************************************************************************)
TipBlocks == {BA, BB}

RECURSIVE AncestorAt(_, _)
\* the block at a height on the chain ending in b (NoBlock if there is none)
AncestorAt(b, height) ==
    IF b \notin WorldBlocks THEN NoBlock
    ELSE IF HeightOf(b) = height THEN b
    ELSE IF HeightOf(b) < height THEN NoBlock
    ELSE AncestorAt(PrevOf(b), height)

\* Node::block_hash(height): the block of the node's active chain at that height
node_block_hash(n, height) == AncestorAt(active[n], height)

\* Node::batch_header_fetch of a Bitcoin Core node (REST /rest/headers/count/hash):
\* up to count headers of the active chain from start_height on
node_batch_header_fetch(n, start_height, count) ==
    LET last == HeightOf(active[n])
        k    == IF last - start_height + 1 < count THEN last - start_height + 1 ELSE count
    IN [i \in 1..k |-> HeaderOf(AncestorAt(active[n], start_height + i - 1))]

ChainTip(hash, height, branchlen, status) ==
    [hash |-> hash, height |-> height, branchlen |-> branchlen, status |-> status]

ActiveTipOf(n) == ChainTip(active[n], HeightOf(active[n]), 0, "active")

\* the other tip of the fork at height 4, as a node on A or B reports it
ForkTipsOf(n) ==
    IF active[n] = BA THEN <<ChainTip(BB, 4, 1, "valid-fork")>>
    ELSE IF active[n] = BB THEN <<ChainTip(BA, 4, 1, "valid-fork")>>
    ELSE <<>>

StaleTip == ChainTip(STALE, 1, 1, "valid-fork")

\* Node::tips(): what getchaintips of node n may return now.  Node 1 knows of the
\* stale tip and may know of the other branch; node 2 reports its active tip only.
TipsReports(n) ==
    IF n = 1
    THEN {<<ActiveTipOf(n)>>, ForkTipsOf(n) \o <<ActiveTipOf(n)>>, <<StaleTip, ActiveTipOf(n)>>}
    ELSE {<<ActiveTipOf(n)>>}

\* the miners the identification of a block can end with
IdentifyResults == {MINER_UNKNOWN, "Foundry"}

pool_identification_enable == TRUE

(***************************************************************************)
(* The poller task of node n (main.rs, task::spawn in the loop over the    *)
(* nodes).  pc names the await the task is suspended at.                   *)
(***************************************************************************)
Locals == [query_height |-> 0, active_new |-> <<>>, nonactive_new |-> <<>>, chunk |-> <<>>,
           start_height |-> 0, scan_i |-> 0, knew |-> FALSE, tip_i |-> 0, walk_i |-> 0,
           next_header |-> NoBlock, new_headers |-> <<>>, tree_changed |-> FALSE,
           tip_heights |-> {}, interesting |-> {}, hij |-> {}, forks |-> <<>>, hij_ver |-> 0]

\* the task at interval.tick().await, its locals of the tick dropped
AtTick(p) == Locals @@ [pc |-> "idle", tips |-> <<>>, last_tips |-> p.last_tips]

Hashes(hs) == [i \in DOMAIN hs |-> block_hash(hs[i].header)]

\* the last tip of the report taken for the active one
LastTipIndex(tips) == Len(tips)

\* tips.iter().filter(status == Active).last(): its index in tips, 0 if there is none
ActiveTipIndex(tips) ==
    IF \E i \in DOMAIN tips : tips[i].status = "active"
    THEN SetMax({i \in DOMAIN tips : tips[i].status = "active"})
    ELSE 0

\* the tips new_nonactive_headers walks
InactiveTips(tips) ==
    SelectSeq(tips, LAMBDA t : t.height - t.branchlen > min_fork_height /\ t.status # "active")

\* the tip's height for every header of the branch
NonactiveTipHeight(tip, i) == tip.height

\* the height new_nonactive_headers gives the i-th header behind a tip
NonactiveHeight(tip, i) == tip.height - i

\* the height new_active_headers gives the k-th header (from 1) of a batch
BatchHeight(start_height, k) == start_height + k - 1

\* a list of hashes needing miners that takes every new header
AllMinersNeeded(active_new, nonactive_new) == Hashes(active_new) \o Hashes(nonactive_new)

\* new_headers(): headers_needing_miners
MinersNeeded(active_new, nonactive_new) ==
    (IF Len(active_new) <= MINER_LIMIT THEN Hashes(active_new) ELSE <<>>) \o Hashes(nonactive_new)

\* a task that goes on to the store write without the graph insertion
DiscoveredToStore(n, p) ==
    LET nh == p.active_new \o p.nonactive_new IN
    /\ pool_id_rx' = pool_id_rx \o MinersNeeded(p.active_new, p.nonactive_new)
    /\ poller' = [poller EXCEPT ![n] =
                    [AtTick(p) EXCEPT !.pc = IF nh = <<>> THEN "node_tips" ELSE "write_db",
                                      !.tips = p.tips, !.last_tips = p.tips, !.new_headers = nh]]

\* new_headers() has returned Ok: the hashes are sent to the pool-id channel,
\* last_tips = tips, and the task goes on to insert (or to the NodeTips update)
Discovered(n, p) ==
    LET nh == p.active_new \o p.nonactive_new IN
    /\ pool_id_rx' = pool_id_rx \o MinersNeeded(p.active_new, p.nonactive_new)
    /\ poller' = [poller EXCEPT ![n] =
                    [AtTick(p) EXCEPT !.pc = IF nh = <<>> THEN "node_tips" ELSE "insert",
                                      !.tips = p.tips, !.last_tips = p.tips, !.new_headers = nh]]

\* new_active_headers has returned Ok(active_new): new_nonactive_headers starts
ActiveDone(n, p, active_new) ==
    LET q == [p EXCEPT !.active_new = SortByHeight(active_new), !.chunk = <<>>, !.scan_i = 0,
                       !.start_height = 0, !.knew = FALSE, !.query_height = 0]
    IN IF fetch_by_hash(n) /\ InactiveTips(p.tips) # <<>>
       THEN /\ poller' = [poller EXCEPT ![n] =
                            [q EXCEPT !.pc = "nonactive_walk", !.tip_i = 1, !.walk_i = 0,
                                      !.next_header = InactiveTips(p.tips)[1].hash]]
            /\ UNCHANGED pool_id_rx
       ELSE Discovered(n, q)

\* a failed tick that records the tips report as seen
TickFailedTipsSeen(n) ==
    /\ poller' = [poller EXCEPT ![n] = AtTick([poller[n] EXCEPT !.last_tips = poller[n].tips])]
    /\ UNCHANGED pool_id_rx

\* a fetch of the tick failed: error!(..); continue
TickFailed(n) ==
    /\ poller' = [poller EXCEPT ![n] = AtTick(poller[n])]
    /\ UNCHANGED pool_id_rx

\* load_node_version and the NodeVersion update before the loop
LoadVersion(n) ==
    /\ poller[n].pc = "version"
    /\ \/ /\ caches' = ApplyNodeVersion(caches, n, "v27")
          /\ UNCHANGED budget
       \/ /\ budget.faults < MaxFaults
          /\ budget' = [budget EXCEPT !.faults = @ + 1]
          /\ caches' = ApplyNodeVersion(caches, n, VERSION_UNKNOWN)
    /\ poller' = [poller EXCEPT ![n].pc = "idle"]
    /\ hist' = [hist EXCEPT !.unnotified = TRUE]
    /\ UNCHANGED <<active, tree, db, db_miner, pool_id_rx, tipchanges, worker, locks, loader>>

\* a tick whose node.tips() fails: NodeReachability{false} if the node was reachable
TickTipsErr(n) ==
    /\ poller[n].pc = "idle"
    /\ budget.ticks < MaxTicks
    /\ budget.faults < MaxFaults
    /\ budget' = [budget EXCEPT !.ticks = @ + 1, !.faults = @ + 1]
    /\ IF caches.node_data[n].reachable
       THEN /\ caches' = ApplyNodeReachability(caches, n, FALSE)
            /\ hist' = [hist EXCEPT !.unnotified = TRUE]
       ELSE UNCHANGED <<caches, hist>>
    /\ UNCHANGED <<active, tree, db, db_miner, pool_id_rx, tipchanges, poller, worker, locks, loader>>

\* a tick whose node.tips() succeeds: NodeReachability{true} if needed; then either
\* the tips are the last ones (tick over), or there is no active tip (DataError,
\* tick over), or the active walk starts at the active tip's height
TickTipsOk(n) ==
    /\ poller[n].pc = "idle"
    /\ budget.ticks < MaxTicks
    /\ budget' = [budget EXCEPT !.ticks = @ + 1]
    /\ IF ~caches.node_data[n].reachable
       THEN /\ caches' = ApplyNodeReachability(caches, n, TRUE)
            /\ hist' = [hist EXCEPT !.unnotified = TRUE, !.recovered = @ \cup {n}]
       ELSE UNCHANGED <<caches, hist>>
    /\ \E tips \in TipsReports(n) :
          IF poller[n].last_tips = tips \/ ActiveTipIndex(tips) = 0
          THEN poller' = [poller EXCEPT ![n] = AtTick(poller[n])]
          ELSE poller' = [poller EXCEPT ![n] =
                             [poller[n] EXCEPT !.pc = "active_walk", !.tips = tips,
                                               !.query_height = tips[ActiveTipIndex(tips)].height]]
    /\ UNCHANGED <<active, tree, db, db_miner, pool_id_rx, tipchanges, worker, locks, loader>>

\* new_active_headers without batch fetch, one pass of the loop: block_hash, the
\* index lookup, the header fetch
ActiveStep(n) ==
    LET p    == poller[n]
        hash == node_block_hash(n, p.query_height)
    IN
    /\ p.pc = "active_walk"
    /\ ~batch_header_fetch(n)
    /\ IF hash = NoBlock
       THEN TickFailed(n)
       ELSE IF hash \in DOMAIN tree.index
       THEN ActiveDone(n, p, p.active_new)
       ELSE LET nh == Append(p.active_new,
                             HeaderInfo(p.query_height, HeaderOf(hash), DEFAULT_EMPTY_MINER))
            IN IF p.query_height - 1 < min_fork_height
               THEN ActiveDone(n, p, nh)
               ELSE /\ poller' = [poller EXCEPT ![n].active_new = nh,
                                                ![n].query_height = p.query_height - 1]
                    /\ UNCHANGED pool_id_rx
    /\ UNCHANGED <<active, tree, db, db_miner, caches, tipchanges, worker, budget, hist, locks, loader>>

\* new_active_headers with batch fetch: block_hash(start_height) and batch_header_fetch
BatchFetch(n) ==
    LET p            == poller[n]
        start_height == Max(min_fork_height, p.query_height - STEP_SIZE + 1)
        header_hash  == node_block_hash(n, start_height)
    IN
    /\ p.pc = "active_walk"
    /\ batch_header_fetch(n)
    /\ IF header_hash = NoBlock
       THEN TickFailed(n)
       ELSE /\ poller' = [poller EXCEPT ![n].pc = "batch_scan",
                                        ![n].start_height = start_height,
                                        ![n].chunk = node_batch_header_fetch(n, start_height, STEP_SIZE),
                                        ![n].scan_i = 1, ![n].knew = FALSE]
            /\ UNCHANGED pool_id_rx
    /\ UNCHANGED <<active, tree, db, db_miner, caches, tipchanges, worker, budget, hist, locks, loader>>

\* the scan of the batch, one header per acquisition of the graph mutex; after the
\* last header: stop if a header was known or the walk is below min_fork_height
BatchScan(n) ==
    LET p     == poller[n]
        more  == p.scan_i <= Len(p.chunk)
        known == block_hash(p.chunk[p.scan_i]) \in DOMAIN tree.index
        nh    == IF more /\ ~known
                 THEN Append(p.active_new,
                             HeaderInfo(BatchHeight(p.start_height, p.scan_i), p.chunk[p.scan_i],
                                        DEFAULT_EMPTY_MINER))
                 ELSE p.active_new
        knew  == p.knew \/ (more /\ known)
    IN
    /\ p.pc = "batch_scan"
    /\ IF p.scan_i < Len(p.chunk)
       THEN /\ poller' = [poller EXCEPT ![n].active_new = nh, ![n].knew = knew,
                                        ![n].scan_i = p.scan_i + 1]
            /\ UNCHANGED pool_id_rx
       ELSE IF knew \/ p.query_height - STEP_SIZE < min_fork_height
       THEN ActiveDone(n, p, nh)
       ELSE /\ poller' = [poller EXCEPT ![n].pc = "active_walk", ![n].active_new = nh,
                                        ![n].chunk = <<>>, ![n].scan_i = 0, ![n].knew = FALSE,
                                        ![n].start_height = 0,
                                        ![n].query_height = p.query_height - STEP_SIZE]
            /\ UNCHANGED pool_id_rx
    /\ UNCHANGED <<active, tree, db, db_miner, caches, tipchanges, worker, budget, hist, locks, loader>>

\* new_nonactive_headers, one pass of the inner loop: stop the walk of this tip if the
\* tip is indexed, else fetch next_header and take its prev hash
NonactiveStep(n) ==
    LET p      == poller[n]
        tips   == InactiveTips(p.tips)
        tip    == tips[p.tip_i]
        next_tip(q) ==
            IF p.tip_i < Len(tips)
            THEN /\ poller' = [poller EXCEPT ![n] =
                                 [q EXCEPT !.tip_i = p.tip_i + 1, !.walk_i = 0,
                                           !.next_header = tips[p.tip_i + 1].hash]]
                 /\ UNCHANGED pool_id_rx
            ELSE Discovered(n, q)
    IN
    /\ p.pc = "nonactive_walk"
    /\ IF tip.hash \in DOMAIN tree.index
       THEN next_tip(p)
       ELSE IF p.next_header \notin WorldBlocks
       THEN TickFailed(n)
       ELSE LET q == [p EXCEPT !.nonactive_new =
                                  Append(@, HeaderInfo(NonactiveHeight(tip, p.walk_i),
                                                       HeaderOf(p.next_header), DEFAULT_EMPTY_MINER)),
                               !.next_header = PrevOf(p.next_header),
                               !.walk_i = p.walk_i + 1]
            IN IF p.walk_i + 1 > tip.branchlen
               THEN next_tip(q)
               ELSE /\ poller' = [poller EXCEPT ![n] = q]
                    /\ UNCHANGED pool_id_rx
    /\ UNCHANGED <<active, tree, db, db_miner, caches, tipchanges, worker, budget, hist, locks, loader>>

\* a block_hash or header fetch of the discovery fails: the tick is skipped
FetchFails(n) ==
    /\ poller[n].pc \in {"active_walk", "nonactive_walk"}
    /\ budget.faults < MaxFaults
    /\ budget' = [budget EXCEPT !.faults = @ + 1]
    /\ TickFailed(n)
    /\ UNCHANGED <<active, tree, db, db_miner, caches, tipchanges, worker, hist, locks, loader>>

\* insert_new_headers_into_tree(&tree_clone, &new_headers)
InsertHeaders(n) ==
    /\ poller[n].pc = "insert"
    /\ tree' = insert_new_headers_into_tree(tree, poller[n].new_headers)
    /\ poller' = [poller EXCEPT ![n].pc = "write_db",
                                ![n].tree_changed = TreeChanged(tree, poller[n].new_headers)]
    /\ UNCHANGED <<active, db, db_miner, caches, pool_id_rx, tipchanges, worker, budget, hist, locks, loader>>

\* db::write_to_db succeeds
WriteDb(n) ==
    /\ poller[n].pc = "write_db"
    /\ db' = write_to_db(db, poller[n].new_headers)
    /\ poller' = [poller EXCEPT ![n].pc = "node_tips", ![n].new_headers = <<>>]
    /\ UNCHANGED <<active, tree, db_miner, caches, pool_id_rx, tipchanges, worker, budget, hist, locks, loader>>

\* db::write_to_db fails: the task returns
WriteDbFails(n) ==
    /\ poller[n].pc = "write_db"
    /\ budget.faults < MaxFaults
    /\ budget' = [budget EXCEPT !.faults = @ + 1]
    /\ poller' = [poller EXCEPT ![n] = [AtTick(poller[n]) EXCEPT !.pc = "returned"]]
    /\ UNCHANGED <<active, tree, db, db_miner, caches, pool_id_rx, tipchanges, worker, hist, locks, loader>>

\* update_cache(NodeTips{node_id, tips}); without tree_changed the tick is over
NodeTips(n) ==
    /\ poller[n].pc = "node_tips"
    /\ caches' = ApplyNodeTips(caches, n, poller[n].tips)
    /\ hist' = [hist EXCEPT !.unnotified = TRUE]
    /\ poller' = [poller EXCEPT ![n] =
                    IF poller[n].tree_changed THEN [poller[n] EXCEPT !.pc = "tip_heights"]
                    ELSE AtTick(poller[n])]
    /\ UNCHANGED <<active, tree, db, db_miner, pool_id_rx, tipchanges, worker, budget, locks, loader>>

\* tip_heights(network.id, &caches_clone) and the heights of the tick's tips
TipHeights(n) ==
    /\ poller[n].pc = "tip_heights"
    /\ poller' = [poller EXCEPT ![n].pc = "interesting",
                                ![n].tip_heights = tip_heights(caches) \cup
                                    {poller[n].tips[i].height : i \in DOMAIN poller[n].tips}]
    /\ UNCHANGED <<active, tree, db, db_miner, caches, pool_id_rx, tipchanges, worker, budget, hist, locks, loader>>

\* strip_tree, first critical section: sorted_interesting_heights
InterestingHeights(n) ==
    /\ poller[n].pc = "interesting"
    /\ poller' = [poller EXCEPT ![n].pc = "strip", ![n].tip_heights = {},
                                ![n].interesting = sorted_interesting_heights(
                                     tree, max_interesting_heights, poller[n].tip_heights)]
    /\ UNCHANGED <<active, tree, db, db_miner, caches, pool_id_rx, tipchanges, worker, budget, hist, locks, loader>>

\* strip_tree, second critical section; a panic ends the task
StripTree(n) ==
    LET r == StripWith(tree, poller[n].interesting) IN
    /\ poller[n].pc = "strip"
    /\ poller' = [poller EXCEPT ![n] =
                    IF r.panic THEN [AtTick(poller[n]) EXCEPT !.pc = "panicked"]
                    ELSE [poller[n] EXCEPT !.pc = "forks", !.interesting = {}, !.hij = r.headers,
                                           !.hij_ver = Len(tree.nodes)]]
    /\ UNCHANGED <<active, tree, db, db_miner, caches, pool_id_rx, tipchanges, worker, budget, hist, locks, loader>>

\* headertree::recent_forks(&tree_clone, MAX_FORKS_IN_CACHE)
RecentForks(n) ==
    /\ poller[n].pc = "forks"
    /\ poller' = [poller EXCEPT ![n].pc = "header_tree",
                                ![n].forks = recent_forks(tree, MAX_FORKS_IN_CACHE)]
    /\ UNCHANGED <<active, tree, db, db_miner, caches, pool_id_rx, tipchanges, worker, budget, hist, locks, loader>>

\* update_cache(HeaderTree{header_infos_json, forks})
HeaderTree(n) ==
    /\ poller[n].pc = "header_tree"
    /\ caches' = ApplyHeaderTree(caches, poller[n].hij, poller[n].forks)
    /\ hist' = [hist EXCEPT !.unnotified = TRUE, !.tree_pending = @ \cup {n},
                            !.cache_ver = poller[n].hij_ver]
    /\ poller' = [poller EXCEPT ![n].pc = "broadcast", ![n].hij = {}, ![n].forks = <<>>]
    /\ UNCHANGED <<active, tree, db, db_miner, pool_id_rx, tipchanges, worker, budget, locks, loader>>

\* a tick that ends without the send
SkipTipChange(count) == count

\* what tipchanges_tx.send(network.id) adds to the channel
SendTipChange(count) == count + 1

\* tipchanges_tx_cloned.clone().send(network.id); the tick is over
Broadcast(n) ==
    /\ poller[n].pc = "broadcast"
    /\ tipchanges' = SendTipChange(tipchanges)
    /\ hist' = IF tipchanges' > tipchanges
               THEN [hist EXCEPT !.unnotified = FALSE, !.tree_pending = @ \ {n},
                                 !.notified_ver = Max(@, poller[n].hij_ver)]
               ELSE hist
    /\ poller' = [poller EXCEPT ![n] = AtTick(poller[n])]
    /\ UNCHANGED <<active, tree, db, db_miner, caches, pool_id_rx, worker, budget, locks, loader>>

\* environment: the active chain of node n changes.  The program sees the chain of a
\* node only in the answers to tips() and block_hash(), so the change is taken
\* right before one of them.
NodeReorg(n) ==
    /\ poller[n].pc \in {"idle", "active_walk"}
    /\ budget.reorgs < MaxReorgs
    /\ budget' = [budget EXCEPT !.reorgs = @ + 1]
    /\ \E b \in TipBlocks \ {active[n]} : active' = [active EXCEPT ![n] = b]
    /\ UNCHANGED <<tree, db, db_miner, caches, pool_id_rx, tipchanges, poller, worker, hist, locks, loader>>

(***************************************************************************)
(* The pool-id worker task (main.rs, task::spawn after the pollers)        *)
(***************************************************************************)
\* the limit of pool_id_rx.recv_many
RECV_LIMIT == 100

\* a test that sends every header to identification again
AlwaysUnidentified(miner) == TRUE

\* the miner strings the worker and the sweep take for not identified
IsUnidentified(miner) == miner = MINER_UNKNOWN \/ miner = DEFAULT_EMPTY_MINER

WorkerIdle == [pc |-> "recv", buffer |-> <<>>, idx |-> 0, header_info |-> HeaderInfo(0, HeaderOf(NoBlock), DEFAULT_EMPTY_MINER)]

\* the worker goes on to the next hash of the buffer: continue, or the end of the for body
WorkerNext(w) == [WorkerIdle EXCEPT !.pc = IF Len(w.buffer) > 1 THEN "lookup" ELSE "recv",
                                    !.buffer = Tail(w.buffer)]

\* pool_id_rx.recv_many(&mut buffer, limit)
WorkerRecv ==
    LET k == IF Len(pool_id_rx) < RECV_LIMIT THEN Len(pool_id_rx) ELSE RECV_LIMIT IN
    /\ worker.pc = "recv"
    /\ pool_id_rx # <<>>
    /\ worker' = [worker EXCEPT !.pc = "lookup", !.buffer = SubSeq(pool_id_rx, 1, k)]
    /\ pool_id_rx' = SubSeq(pool_id_rx, k + 1, Len(pool_id_rx))
    /\ UNCHANGED <<active, tree, db, db_miner, caches, tipchanges, poller, budget, hist, locks, loader>>

\* what one node contributes to the identification of a block: node.coinbase() fails,
\* identify_pool finds no pool in the coinbase, or it finds the pool of that name
COINBASE_ERR == "err"

NO_POOL == "none"

CoinbaseAnswers == {COINBASE_ERR, NO_POOL, "Foundry"}

\* network.nodes of the worker: the nodes of the network in configured order
NodeList == SeqOfSet(DOMAIN caches.node_data)

\* an identification that asks the first node of the network only
identify_at_first_node(nodes, coinbase, miner) ==
    IF nodes = <<>> \/ coinbase[nodes[1]] \in {COINBASE_ERR, NO_POOL} THEN MINER_UNKNOWN
    ELSE coinbase[nodes[1]]

RECURSIVE identify_miner(_, _, _)
\* the loop over the nodes: Ok(coinbase) sets miner to the pool name or to Unknown, Err
\* leaves it; break as soon as miner is not Unknown
identify_miner(nodes, coinbase, miner) ==
    IF nodes = <<>> THEN miner
    ELSE LET answer == coinbase[nodes[1]]
             m      == IF answer = COINBASE_ERR THEN miner
                       ELSE IF answer = NO_POOL THEN MINER_UNKNOWN
                       ELSE answer
         IN IF m # MINER_UNKNOWN THEN m ELSE identify_miner(Tail(nodes), coinbase, m)

\* the history of a specification that records the answers of the nodes
NoteCoinbase(h, coinbase) ==
    IF "coinbase" \in DOMAIN h THEN [h EXCEPT !.coinbase = coinbase] ELSE h

\* the index lookup, the clone of the vertex, the skip of an identified header and
\* the coinbase queries of the nodes
WorkerIdentify ==
    LET hash == Head(worker.buffer) IN
    /\ worker.pc = "lookup"
    /\ IF ~pool_identification_enable \/ hash \notin DOMAIN tree.index
       THEN worker' = WorkerNext(worker)
       ELSE LET idx == tree.index[hash]
                header_info == tree.nodes[idx]
            IN IF ~IsUnidentified(header_info.miner)
               THEN worker' = WorkerNext(worker)
               ELSE \E coinbase \in [DOMAIN caches.node_data -> CoinbaseAnswers] :
                       LET miner == identify_miner(NodeList, coinbase, MINER_UNKNOWN) IN
                       /\ miner = MINER_UNKNOWN => budget.faults < MaxFaults
                       /\ budget' = IF miner = MINER_UNKNOWN
                                     THEN [budget EXCEPT !.faults = @ + 1] ELSE budget
                       /\ hist' = NoteCoinbase(hist, coinbase)
                       /\ worker' = [worker EXCEPT !.pc = "write_graph", !.idx = idx,
                                                   !.header_info = [header_info EXCEPT !.miner = miner]]
    /\ worker'.pc # "write_graph" => UNCHANGED <<budget, hist>>
    /\ UNCHANGED <<active, tree, db, db_miner, caches, pool_id_rx, tipchanges, poller, locks, loader>>

\* tree_locked.0[idx] = header_info.clone()
WorkerWriteGraph ==
    /\ worker.pc = "write_graph"
    /\ tree' = [tree EXCEPT !.nodes[worker.idx] = worker.header_info]
    /\ worker' = [worker EXCEPT !.pc = "update_miner"]
    /\ UNCHANGED <<active, db, db_miner, caches, pool_id_rx, tipchanges, poller, budget, hist, locks, loader>>

\* db::update_miner: UPDATE headers SET miner = .. WHERE hash = ..
update_miner(rows, miners, hash, miner) ==
    IF \E r \in rows : r.hash = hash
    THEN [h \in DOMAIN miners \cup {hash} |-> IF h = hash THEN miner ELSE miners[h]]
    ELSE miners

WorkerUpdateMiner ==
    /\ worker.pc = "update_miner"
    /\ db_miner' = update_miner(db, db_miner, block_hash(worker.header_info.header),
                                worker.header_info.miner)
    /\ worker' = [worker EXCEPT !.pc = "header_miner"]
    /\ UNCHANGED <<active, tree, db, caches, pool_id_rx, tipchanges, poller, budget, hist, locks, loader>>

\* update_cache(HeaderMiner{header_info}); the worker sends nothing on the change channel
WorkerHeaderMiner ==
    /\ worker.pc = "header_miner"
    /\ caches' = ApplyHeaderMiner(caches, worker.header_info)
    /\ hist' = [hist EXCEPT !.unnotified = TRUE]
    /\ worker' = WorkerNext(worker)
    /\ UNCHANGED <<active, tree, db, db_miner, pool_id_rx, tipchanges, poller, budget, locks, loader>>

\* the value of locks in the specifications that do not follow the lock protocol
NoLocks == [owner |-> <<>>, at |-> <<>>]

(***************************************************************************)
(* The whole program                                                       *)
(***************************************************************************)
\* the stores startup can find: a new one, or one that holds A without its ancestors
\* (written by an earlier run with min_fork_height = 4 while its node was on A, or by
\* an earlier run in which the store write of the poller that had inserted the
\* ancestors failed and another poller wrote A)
InitStores == {{}, InsertRow({}, HeaderInfo(HeightOf(BA), HeaderOf(BA), DEFAULT_EMPTY_MINER))}

Init ==
    /\ active = [n \in Nodes |-> IF n = 1 THEN BA ELSE BB]
    /\ db \in InitStores
    /\ db_miner = EmptyIndex
    /\ tree = load_treeinfos(db, db_miner)
    /\ caches = populate_cache(tree)
    /\ pool_id_rx = <<>>
    /\ tipchanges = 0
    /\ poller = [n \in Nodes |-> [AtTick([last_tips |-> <<>>]) EXCEPT !.pc = "version"]]
    /\ worker = WorkerIdle
    /\ budget = [ticks |-> 0, reorgs |-> 0, faults |-> 0]
    /\ hist = [unnotified |-> FALSE, tree_pending |-> {}, cache_ver |-> Len(tree.nodes),
               notified_ver |-> 0, recovered |-> {}]
    /\ locks = NoLocks
    /\ loader = Loaded(DOMAIN caches.node_data)

PollerStep(n) ==
    \/ LoadVersion(n)
    \/ TickTipsErr(n)
    \/ TickTipsOk(n)
    \/ ActiveStep(n)
    \/ BatchFetch(n)
    \/ BatchScan(n)
    \/ NonactiveStep(n)
    \/ FetchFails(n)
    \/ InsertHeaders(n)
    \/ WriteDb(n)
    \/ WriteDbFails(n)
    \/ NodeTips(n)
    \/ TipHeights(n)
    \/ InterestingHeights(n)
    \/ StripTree(n)
    \/ RecentForks(n)
    \/ HeaderTree(n)
    \/ Broadcast(n)

WorkerStep ==
    \/ WorkerRecv
    \/ WorkerIdentify
    \/ WorkerWriteGraph
    \/ WorkerUpdateMiner
    \/ WorkerHeaderMiner

Next ==
    \/ \E n \in Nodes : PollerStep(n) \/ NodeReorg(n)
    \/ WorkerStep

Spec == Init /\ [][Next]_vars

(***************************************************************************)
(* Views of the state the properties are stated over                       *)
(***************************************************************************)
\* the vertices of a graph as (hash, height) and its edges as (parent hash, child hash)
GraphVertices(t) == {<<block_hash(t.nodes[v].header), t.nodes[v].height>> : v \in DOMAIN t.nodes}

GraphEdges(t) ==
    {<<block_hash(t.nodes[t.edges[i][1]].header), block_hash(t.nodes[t.edges[i][2]].header)>> :
        i \in DOMAIN t.edges}

\* the number of edges into vertex v
InDegree(t, v) == Cardinality({i \in DOMAIN t.edges : t.edges[i][2] = v})

\* the number of edges out of vertex v
OutDegree(t, v) == Cardinality({i \in DOMAIN t.edges : t.edges[i][1] = v})

\* a poller has inserted a batch all of whose headers another task had inserted
\* between this poller's discovery and its insertion
RedeliveredBatch(n) ==
    /\ poller[n].pc = "write_db"
    /\ poller[n].new_headers # <<>>
    /\ ~poller[n].tree_changed

\* every poller is between two ticks, none has ended
PollersBetweenTicks == \A n \in Nodes : poller[n].pc = "idle"

\* a fork list as the set of (hash of common, hashes of children)
ForkShape(forks) ==
    {[common |-> block_hash(forks[i].common.header),
      children |-> {block_hash(forks[i].children[k].header) : k \in DOMAIN forks[i].children}] :
        i \in DOMAIN forks}

HashesOf(hij) == {h.hash : h \in hij}

(***************************************************************************)
(* Properties of the header graph                                          *)
(***************************************************************************)
\* C1: the hash index and the vertex set are in bijection: every indexed hash maps to
\* a vertex whose header has that hash, and every vertex is indexed under its own hash.
C1_IndexBijection ==
    /\ \A h \in DOMAIN tree.index :
          /\ tree.index[h] \in DOMAIN tree.nodes
          /\ block_hash(tree.nodes[tree.index[h]].header) = h
    /\ \A v \in DOMAIN tree.nodes :
          /\ block_hash(tree.nodes[v].header) \in DOMAIN tree.index
          /\ tree.index[block_hash(tree.nodes[v].header)] = v

\* C1 witness: a graph loaded from a non-empty store, after a batch of already known
\* headers was inserted and the worker has written a miner back
C1_Witness ==
    /\ db # {}
    /\ \E n \in Nodes : RedeliveredBatch(n)
    /\ \E v \in DOMAIN tree.nodes : tree.nodes[v].miner # DEFAULT_EMPTY_MINER

\* C2: every edge (p, c) has c.header.prev_blockhash = hash(p) and c.height = p.height + 1.
C2_EdgesLinked ==
    \A i \in DOMAIN tree.edges :
        LET p == tree.nodes[tree.edges[i][1]]
            c == tree.nodes[tree.edges[i][2]]
        IN /\ c.header.prev_blockhash = block_hash(p.header)
           /\ c.height = p.height + 1

\* C2 witness: a batch holding headers of the inactive walk (they follow the active ones
\* in descending height) has been inserted, and both A and B have their edge from P
C2_Witness ==
    /\ \E n \in Nodes :
          /\ poller[n].pc = "write_db"
          /\ \E i, j \in DOMAIN poller[n].new_headers :
                i < j /\ poller[n].new_headers[i].height > poller[n].new_headers[j].height
    /\ {<<BP, BA>>, <<BP, BB>>, <<BR, BP>>} \subseteq GraphEdges(tree)

\* C3: every vertex has at most one incoming edge.
C3_InDegreeAtMostOne == \A v \in DOMAIN tree.nodes : InDegree(tree, v) <= 1

\* C3 witness: a batch of headers that another poller had already inserted and
\* connected has been inserted again
C3_Witness ==
    \E n \in Nodes :
        /\ RedeliveredBatch(n)
        /\ \E i \in DOMAIN poller[n].new_headers :
              InDegree(tree, tree.index[block_hash(poller[n].new_headers[i].header)]) = 1

(***************************************************************************)
(* Properties of the cache, the store and the change channel               *)
(***************************************************************************)
\* C5: once every poller has finished its tick (no store error), cache.forks is the fork
\* list of the current graph and cache.header_infos_json the stripped view of it.
C5_CacheConverges ==
    PollersBetweenTicks =>
        /\ ForkShape(caches.forks) = ForkShape(recent_forks(tree, MAX_FORKS_IN_CACHE))
        /\ HashesOf(caches.header_infos_json) =
              HashesOf(strip_tree(tree, max_interesting_heights, tip_heights(caches)).headers)

\* C6: after a broadcast for a tick the cache never holds a header list computed from
\* an older graph than the one that tick published.
C6_NoOlderTreeAfterBroadcast == hist.notified_ver <= hist.cache_ver

\* C7: when a tick of poller n ends, the cached tips of n are the tips of the tick
\* filtered to heights >= the minimum height of the cached header list as it is then.
C7_TipsFilteredAfterTick ==
    [][\A n \in Nodes :
          (poller[n].pc \in {"node_tips", "broadcast"} /\ poller'[n].pc = "idle") =>
              caches'.node_data[n].tips = RelevantTips(caches'.header_infos_json, poller[n].tips)]_vars

\* C9: when no poller is between its graph insertion and its store write, the stored
\* (hash, height) set is the vertex set of the graph, and the graph rebuilt from the
\* store has the same vertices and the same edges.
C9_StoreMatchesGraph ==
    (\A n \in Nodes : poller[n].pc \notin {"write_db", "returned"}) =>
        LET rebuilt == load_treeinfos(db, db_miner) IN
        /\ {<<r.hash, r.height>> : r \in db} = GraphVertices(tree)
        /\ GraphVertices(rebuilt) = GraphVertices(tree)
        /\ GraphEdges(rebuilt) = GraphEdges(tree)

\* no task is inside a handler and nothing waits in the pool-id channel
Quiescent ==
    /\ \A n \in Nodes : poller[n].pc \in {"idle", "returned", "panicked"}
    /\ worker.pc = "recv"
    /\ pool_id_rx = <<>>

\* C10: every mutation of the cache is followed by a broadcast: when all tasks have
\* finished their handlers, no mutation is left that no broadcast followed.
C10_EveryMutationBroadcast == Quiescent => ~hist.unnotified

\* C10 as amended: every HeaderTree mutation is followed by the broadcast of the tick
\* that made it: a poller with a published, not yet announced tree is at the send.
C10_TreeUpdateBroadcast == \A n \in hist.tree_pending : poller[n].pc = "broadcast"

\* C10 witness: a tick has published a tree and sent the network id
C10_Witness ==
    /\ tipchanges > 0
    /\ hist.tree_pending = {}
    /\ \E n \in Nodes : poller[n].pc = "idle" /\ HashesOf(caches.header_infos_json) # {}

\* a step in which the header discovery of poller n ends with a fetch error
DiscoveryFails(n) ==
    /\ poller[n].pc \in {"active_walk", "batch_scan", "nonactive_walk"}
    /\ poller'[n].pc = "idle"

\* poller n is inside a tick whose tips() has succeeded
InTick(p) == p.pc \notin {"version", "idle", "returned", "panicked"}

\* C13: a tick whose tips() fails leaves the node's flag false, a tick whose tips()
\* succeeds leaves it true until the tick is over, and the update changes nothing but
\* the flag of that node.
C13_ReachableFollowsTips ==
    [][\A n \in Nodes :
          /\ TickTipsErr(n) => ~caches'.node_data[n].reachable
          /\ TickTipsOk(n) => caches'.node_data[n].reachable
          /\ InTick(poller[n]) => caches'.node_data[n].reachable
          /\ (TickTipsErr(n) \/ TickTipsOk(n)) =>
                /\ \A m \in Nodes \ {n} : caches'.node_data[m] = caches.node_data[m]
                /\ caches'.node_data[n].tips = caches.node_data[n].tips
                /\ caches'.node_data[n].version = caches.node_data[n].version
                /\ caches'.header_infos_json = caches.header_infos_json
                /\ caches'.forks = caches.forks]_vars

\* C13 witness: a node that was marked unreachable by a failing tick is reachable
\* again after its next tick, which is over
C13_Witness ==
    \E n \in hist.recovered : caches.node_data[n].reachable /\ poller[n].pc = "idle"

\* C14: a tick of poller n in which tips() or a fetch of the header discovery fails
\* leaves node n marked unreachable.
C14_FetchErrorMarksUnreachable ==
    [][\A n \in Nodes :
          (TickTipsErr(n) \/ DiscoveryFails(n)) => ~caches'.node_data[n].reachable]_vars

\* C12: with node 1 on A and node 2 on B (same height, same parent P), once both
\* pollers have completed a successful tick the graph contains A and B and P has
\* exactly two outgoing edges.
C12_BothBranchesAfterOneTick ==
    (/\ active[1] = BA /\ active[2] = BB /\ budget.reorgs = 0
     /\ \A n \in Nodes : poller[n].pc = "idle" /\ poller[n].last_tips # <<>>) =>
        /\ {BA, BB, BP} \subseteq DOMAIN tree.index
        /\ OutDegree(tree, tree.index[BP]) = 2

\* a step that ends a tick of poller n
TickEnds(n) ==
    \/ InTick(poller[n]) /\ ~InTick(poller'[n])
    \/ TickTipsErr(n)
    \/ TickTipsOk(n) /\ poller'[n].pc = "idle"

\* C11: a tick sends the network id exactly once if it inserted a previously unknown
\* vertex and sends nothing otherwise: the flag returned by the insertion tells whether
\* a vertex was added, nothing is sent before a tick ends, and the step that ends
\* the tick sends once if the flag is set and not at all if it is not.
C11_OneSendPerInsertingTick ==
    [][/\ \A n \in Nodes :
             /\ InsertHeaders(n) => (poller'[n].tree_changed <=> Len(tree'.nodes) > Len(tree.nodes))
             /\ TickEnds(n) =>
                    tipchanges' - tipchanges = IF poller[n].tree_changed THEN 1 ELSE 0
       /\ tipchanges' # tipchanges => \E n \in Nodes : TickEnds(n)]_vars

\* nothing is left to do unless a node reports other tips: every poller has returned
\* or waits for its next tick with the tips its node reports now as last_tips, and
\* the pool-id worker waits on an empty channel
Settled ==
    /\ \A n \in Nodes :
          \/ poller[n].pc = "returned"
          \/ poller[n].pc = "idle" /\ poller[n].last_tips \in TipsReports(n)
    /\ worker.pc = "recv"
    /\ pool_id_rx = <<>>

\* C15: after a store write error has ended a poller, the headers its tick inserted
\* into the graph reach the store and the cache through the remaining tasks: once
\* these have nothing left to do, every vertex of the graph is stored and the cached
\* header list is the stripped view of the graph.
C15_StoreErrorLosesNothing ==
    ((\E n \in Nodes : poller[n].pc = "returned") /\ Settled) =>
        /\ GraphVertices(tree) \subseteq {<<r.hash, r.height>> : r \in db}
        /\ HashesOf(caches.header_infos_json) =
              HashesOf(strip_tree(tree, max_interesting_heights, tip_heights(caches)).headers)

\* the place of a step of the tick in the order of its effects
TickRank(pc) ==
    CASE pc = "insert" -> 1
      [] pc = "write_db" -> 2
      [] pc = "node_tips" -> 3
      [] pc \in {"tip_heights", "interesting", "strip", "forks"} -> 4
      [] pc = "header_tree" -> 5
      [] pc = "broadcast" -> 6
      [] OTHER -> 0

\* C30: within one tick of a poller the effects happen in the order graph insertion,
\* store write, NodeTips update, HeaderTree update, broadcast: the task only moves
\* forward through these steps, each effect happens in its own step, the rows written
\* to the store are of headers that are in the graph, and the broadcast step is
\* entered from the HeaderTree update only.
C30_TickEffectsInOrder ==
    [][\A n \in Nodes :
          poller'[n] # poller[n] =>
              /\ (InTick(poller[n]) /\ InTick(poller'[n])) =>
                     TickRank(poller'[n].pc) >= TickRank(poller[n].pc)
              /\ tree' # tree => poller[n].pc = "insert"
              /\ db' # db => /\ poller[n].pc = "write_db"
                             /\ \A r \in db' \ db : r.hash \in DOMAIN tree.index
              /\ caches'.node_data[n].tips # caches.node_data[n].tips => poller[n].pc = "node_tips"
              /\ (caches'.header_infos_json # caches.header_infos_json \/ caches'.forks # caches.forks)
                     => poller[n].pc = "header_tree"
              /\ tipchanges' # tipchanges => poller[n].pc = "broadcast"
              /\ (poller'[n].pc = "broadcast" /\ poller[n].pc # "broadcast") =>
                     /\ poller[n].pc = "header_tree"
                     /\ caches'.header_infos_json = SpliceMiners(poller[n].hij, caches.recent_miners)
                     /\ caches'.forks = poller[n].forks]_vars

\* C30 witness: a tick has gone through all five effects: its headers are in the
\* graph and in the store, the tips of its node and a header list are in the cache,
\* and a notification has been sent
C30_Witness ==
    \E n \in Nodes :
        /\ poller[n].pc = "idle"
        /\ poller[n].last_tips # <<>>
        /\ Cardinality(db) > 1
        /\ \A r \in db : r.hash \in DOMAIN tree.index
        /\ caches.node_data[n].tips # <<>>
        /\ caches.header_infos_json # {}
        /\ tipchanges > 0

(***************************************************************************)
(* Header discovery with nodes that are still syncing and tips reports     *)
(* without an active tip (specification SpecDiscovery): the tasks of Spec, *)
(* each node on a chain that does not change; a node may be on Z, below    *)
(* min_fork_height, and tips() may return a report that has no active tip. *)
(***************************************************************************)
\* the blocks a node's chain may end in
SyncBlocks(n) == IF n = 1 THEN {BZ, BA} ELSE {BZ, BB}

\* tips reports with zero entries and with no active tip
NoActiveReports == {<<>>, <<StaleTip>>}

\* a tick whose node.tips() succeeds with a report that has no active tip: the
\* report equals last_tips, or new_active_headers returns DataError and the tick is
\* skipped
TickTipsNoActive(n) ==
    /\ poller[n].pc = "idle"
    /\ budget.ticks < MaxTicks
    /\ budget' = [budget EXCEPT !.ticks = @ + 1]
    /\ IF ~caches.node_data[n].reachable
       THEN /\ caches' = ApplyNodeReachability(caches, n, TRUE)
            /\ hist' = [hist EXCEPT !.unnotified = TRUE, !.recovered = @ \cup {n},
                                    !.no_active = @ \cup {n}]
       ELSE /\ hist' = [hist EXCEPT !.no_active = @ \cup {n}]
            /\ UNCHANGED caches
    /\ \E tips \in NoActiveReports :
          IF poller[n].last_tips = tips \/ ActiveTipIndex(tips) = 0
          THEN poller' = [poller EXCEPT ![n] = AtTick(poller[n])]
          ELSE poller' = [poller EXCEPT ![n] =
                             [poller[n] EXCEPT !.pc = "active_walk", !.tips = tips,
                                               !.query_height = tips[ActiveTipIndex(tips)].height]]
    /\ UNCHANGED <<active, tree, db, db_miner, pool_id_rx, tipchanges, worker, locks, loader>>

InitDiscovery ==
    /\ active \in {f \in [Nodes -> WorldBlocks] : \A n \in Nodes : f[n] \in SyncBlocks(n)}
    /\ db \in InitStores
    /\ db_miner = EmptyIndex
    /\ tree = load_treeinfos(db, db_miner)
    /\ caches = populate_cache(tree)
    /\ pool_id_rx = <<>>
    /\ tipchanges = 0
    /\ poller = [n \in Nodes |-> [AtTick([last_tips |-> <<>>]) EXCEPT !.pc = "version"]]
    /\ worker = WorkerIdle
    /\ budget = [ticks |-> 0, reorgs |-> 0, faults |-> 0]
    /\ hist = [unnotified |-> FALSE, tree_pending |-> {}, cache_ver |-> Len(tree.nodes),
               notified_ver |-> 0, recovered |-> {}, no_active |-> {}]
    /\ locks = NoLocks
    /\ loader = Loaded(DOMAIN caches.node_data)

NextDiscovery ==
    \/ \E n \in Nodes : PollerStep(n) \/ TickTipsNoActive(n)
    \/ WorkerStep

SpecDiscovery == InitDiscovery /\ [][NextDiscovery]_vars

\* the heights of a list of headers
HeightsOf(hs) == {hs[i].height : i \in DOMAIN hs}

\* the height of the active tip of a tips report (0 if it has none)
ActiveHeight(tips) == IF ActiveTipIndex(tips) = 0 THEN 0 ELSE tips[ActiveTipIndex(tips)].height

\* C16: no header found by the discovery and no vertex of the graph is below
\* min_fork_height, and a discovery whose active tip is below min_fork_height finds
\* no header.
C16_NothingBelowMinForkHeight ==
    /\ \A v \in DOMAIN tree.nodes : tree.nodes[v].height >= min_fork_height
    /\ \A n \in Nodes :
          LET found == poller[n].active_new \o poller[n].nonactive_new \o poller[n].new_headers IN
          /\ \A h \in HeightsOf(found) : h >= min_fork_height
          /\ (InTick(poller[n]) /\ ActiveHeight(poller[n].tips) < min_fork_height) => found = <<>>

\* C17: the list of new headers a discovery returns is sorted by ascending height.
C17_NewHeadersSorted ==
    \A n \in Nodes : \A i, j \in DOMAIN poller[n].new_headers :
        i < j => poller[n].new_headers[i].height <= poller[n].new_headers[j].height

\* C18: a tick whose tips report has zero entries or no active tip is over with the
\* tips step and leaves the graph, the store, last_tips, the cached tips, header list
\* and forks, the pool-id channel and the change channel as they were.
C18_NoActiveTipNoMutation ==
    [][\A n \in Nodes :
          TickTipsNoActive(n) =>
              /\ ~InTick(poller'[n])
              /\ poller'[n].last_tips = poller[n].last_tips
              /\ tree' = tree /\ db' = db /\ db_miner' = db_miner
              /\ caches'.node_data[n].tips = caches.node_data[n].tips
              /\ caches'.header_infos_json = caches.header_infos_json
              /\ caches'.forks = caches.forks
              /\ pool_id_rx' = pool_id_rx
              /\ tipchanges' = tipchanges]_vars

\* C18 witness: a node has answered a tick with a report without an active tip after
\* a tick that had filled the graph and the cache
C18_Witness ==
    \E n \in hist.no_active :
        /\ poller[n].pc = "idle"
        /\ poller[n].last_tips # <<>>
        /\ caches.node_data[n].tips # <<>>
        /\ tree.nodes # <<>>

\* the tip the inactive-chain walk of node n is at
WalkedTip(n) == InactiveTips(poller[n].tips)[poller[n].tip_i]

\* this step of the inactive-chain walk of node n fetches the header of next_header
NonactiveFetch(n) ==
    /\ NonactiveStep(n)
    /\ WalkedTip(n).hash \notin DOMAIN tree.index
    /\ poller[n].next_header \in WorldBlocks

\* C24: the inactive-chain walk of a tip makes at most branchlen fetches and fetches
\* no header whose hash is in the graph, so no header it returns was indexed when it
\* was fetched.
C24_InactiveWalkStopsAtKnown ==
    [][\A n \in Nodes :
          NonactiveFetch(n) =>
              /\ poller[n].walk_i < WalkedTip(n).branchlen
              /\ poller[n].next_header \notin DOMAIN tree.index]_vars

\* the discovery run of node n returns Ok in this step
DiscoveryReturns(n) ==
    /\ poller[n].pc \in {"active_walk", "batch_scan", "nonactive_walk"}
    /\ poller'[n].pc \in {"insert", "node_tips"}

\* the number of headers the active walk of the run that returns in this step found
ActiveFound(n) ==
    IF poller[n].pc = "nonactive_walk" THEN Len(poller[n].active_new)
    ELSE Len(poller'[n].new_headers)

\* C25: the hashes a discovery run requests miners for are the hashes of its new
\* active-chain headers if there are at most MINER_LIMIT of them and none of them
\* otherwise, followed by the hashes of all headers of its inactive-chain walk.
C25_MinersRequested ==
    [][\A n \in Nodes :
          DiscoveryReturns(n) =>
              LET found    == poller'[n].new_headers
                  on_active == SubSeq(found, 1, ActiveFound(n))
                  inactive  == SubSeq(found, ActiveFound(n) + 1, Len(found))
              IN pool_id_rx' = pool_id_rx
                                  \o (IF ActiveFound(n) <= MINER_LIMIT THEN Hashes(on_active) ELSE <<>>)
                                  \o Hashes(inactive)]_vars

\* C25 witness: a discovery run has returned more than MINER_LIMIT active-chain headers
\* followed by inactive-chain headers, and the channel holds the hashes of the
\* inactive-chain headers only
C25_Witness ==
    \E n \in Nodes :
        LET found == poller[n].new_headers
            k     == Len(found) - Len(pool_id_rx)
        IN /\ poller[n].pc = "insert"
           /\ pool_id_rx # <<>>
           /\ k > MINER_LIMIT
           /\ pool_id_rx = Hashes(SubSeq(found, k + 1, Len(found)))
           /\ \E i \in 1..k : block_hash(found[i].header) = active[n]

\* lagging_nodes_response: the nodes the lagging feed has an item for
THREASHOLD_NODE_LAGGING == 3

\* the height of the last cached tip of a node with status active, 0 without one
CachedActiveHeight(node) ==
    LET act == SelectSeq(node.tips, LAMBDA t : t.status = "active")
    IN IF act = <<>> THEN 0 ELSE act[Len(act)].height

\* the maximum of the active heights of all nodes of the network
FleetMaxHeight(c) == SetMax({CachedActiveHeight(c.node_data[n]) : n \in DOMAIN c.node_data})

lagging_nodes(c) ==
    IF Cardinality(DOMAIN c.node_data) > 1
    THEN {n \in DOMAIN c.node_data :
             CachedActiveHeight(c.node_data[n]) + THREASHOLD_NODE_LAGGING < FleetMaxHeight(c)}
    ELSE {}

\* C22: in a network with more than one node the lagging feed lists a node exactly
\* when its cached active tip height is at least 3 blocks below the maximum active
\* tip height over all nodes.
C22_LaggingAtLeastThree ==
    Cardinality(DOMAIN caches.node_data) > 1 =>
        lagging_nodes(caches) =
            {n \in DOMAIN caches.node_data :
                FleetMaxHeight(caches) - CachedActiveHeight(caches.node_data[n])
                    >= THREASHOLD_NODE_LAGGING}

\* every header of batch hs is a vertex of graph t and is linked to its parent if the
\* parent is a vertex
BatchPresent(t, hs) ==
    \A i \in DOMAIN hs :
        /\ block_hash(hs[i].header) \in DOMAIN t.index
        /\ hs[i].header.prev_blockhash \in DOMAIN t.index =>
              <<hs[i].header.prev_blockhash, block_hash(hs[i].header)>> \in GraphEdges(t)

\* what a reader of the graph sees of its structure: index, vertices and edges
GraphShape(t) == <<DOMAIN t.index, GraphVertices(t), GraphEdges(t)>>

\* C31: the vertices and edges of a batch appear in the graph in one critical section:
\* a step that changes the structure of the graph is the insertion step of one poller,
\* adds vertices of that poller's batch only, and leaves every header of the batch
\* indexed and linked to its indexed parent.
C31_BatchInsertedAtomically ==
    [][GraphShape(tree') # GraphShape(tree) =>
          \E n \in Nodes :
              /\ InsertHeaders(n)
              /\ BatchPresent(tree', poller[n].new_headers)
              /\ DOMAIN tree'.index \ DOMAIN tree.index
                    \subseteq Range(Hashes(poller[n].new_headers))]_vars

\* C31 witness: a poller has inserted a batch of several headers that changed the graph
\* while the other poller is in the middle of its discovery and the worker in the
\* middle of a buffer
C31_Witness ==
    \E n \in Nodes :
        /\ poller[n].pc = "write_db"
        /\ poller[n].tree_changed
        /\ Len(poller[n].new_headers) > 1
        /\ BatchPresent(tree, poller[n].new_headers)
        /\ \E m \in Nodes \ {n} : poller[m].pc \in {"active_walk", "batch_scan", "nonactive_walk"}
        /\ worker.pc = "lookup"

\* the step after which the headers of the tick of node n are in the graph: the
\* insertion, or the return of a discovery that found nothing new
TickInserted(n) ==
    \/ InsertHeaders(n)
    \/ DiscoveryReturns(n) /\ poller'[n].pc = "node_tips"

\* the active tip of the tips report of the tick of node n
ReportedActiveTip(n) == poller'[n].tips[ActiveTipIndex(poller'[n].tips)]

\* C34: once the headers of a tick are in the graph, the graph holds the reported
\* active tip (if its height is at least min_fork_height) and each of its ancestors
\* down to min_fork_height, or down to the first header of that chain that was a
\* vertex before.
C34_ActiveChainInGraph ==
    [][\A n \in Nodes :
          (TickInserted(n) /\ ReportedActiveTip(n).height >= min_fork_height) =>
              \A h \in min_fork_height..ReportedActiveTip(n).height :
                  \/ AncestorAt(ReportedActiveTip(n).hash, h) \in DOMAIN tree'.index
                  \/ \E above \in (h + 1)..ReportedActiveTip(n).height :
                        AncestorAt(ReportedActiveTip(n).hash, above) \in DOMAIN tree.index]_vars

\* C35: the worker looks a hash up only when the header is in the graph index, so no
\* hash a poller sent is skipped as not present.
C35_DequeuedAfterIndexed ==
    [][WorkerIdentify => Head(worker.buffer) \in DOMAIN tree.index]_vars

\* the miner column of the store for a hash
StoredMiner(hash) == IF hash \in DOMAIN db_miner THEN db_miner[hash] ELSE DEFAULT_EMPTY_MINER

\* C36: when the worker has nothing left to process and every poller has finished its
\* tick, the miner stored for every stored header is the miner of its graph vertex.
C36_StoredMinerMatchesGraph ==
    (PollersBetweenTicks /\ worker.pc = "recv" /\ pool_id_rx = <<>>) =>
        \A r \in db : r.hash \in DOMAIN tree.index =>
            StoredMiner(r.hash) = tree.nodes[tree.index[r.hash]].miner

\* the heights sorted_interesting_heights chooses from: the heights with several
\* vertices, the tip heights and the greatest height
InterestingCandidates(t, heights_of_tips) ==
    LET heights == {t.nodes[v].height : v \in DOMAIN t.nodes}
    IN {h \in heights : Cardinality({v \in DOMAIN t.nodes : t.nodes[v].height = h}) > 1}
          \cup heights_of_tips
          \cup {h \in heights : \A g \in heights : g <= h}

\* C37: when every poller is between ticks and there are at most
\* max_interesting_heights interesting heights, every cached tip of every node has an
\* entry with its hash in the cached header list.
C37_CachedTipsHaveHeaders ==
    (/\ PollersBetweenTicks
     /\ Cardinality(InterestingCandidates(tree, tip_heights(caches))) <= max_interesting_heights) =>
        \A n \in DOMAIN caches.node_data : \A i \in DOMAIN caches.node_data[n].tips :
            caches.node_data[n].tips[i].hash \in HashesOf(caches.header_infos_json)

\* C38: the edge set is complete: two vertices p and c with c.header.prev_blockhash =
\* hash(p) are joined by the edge (p, c).
C38_EdgesComplete ==
    \A p \in DOMAIN tree.nodes : \A c \in DOMAIN tree.nodes :
        tree.nodes[c].header.prev_blockhash = block_hash(tree.nodes[p].header) =>
            \E i \in DOMAIN tree.edges : tree.edges[i] = <<p, c>>

\* C39: the list of new headers a discovery run has returned holds every block hash
\* at most once.
C39_NewHeadersDistinct ==
    \A n \in Nodes :
        poller[n].pc = "insert" =>
            \A i \in DOMAIN poller[n].new_headers : \A k \in DOMAIN poller[n].new_headers :
                block_hash(poller[n].new_headers[i].header) =
                    block_hash(poller[n].new_headers[k].header) => i = k

\* the cached tips of every node
CachedTips(c) == [n \in DOMAIN c.node_data |-> c.node_data[n].tips]

\* node n is in its discovery run
InDiscovery(n) == poller[n].pc \in {"active_walk", "batch_scan", "nonactive_walk"}

\* the step ends the tick of node n before the graph insertion: the tips were the
\* last ones, or the discovery failed
TickSkipped(n) ==
    /\ poller[n].pc \in {"idle", "active_walk", "batch_scan", "nonactive_walk"}
    /\ poller'[n].pc = "idle"
    /\ (poller[n].pc = "idle" => budget'.ticks # budget.ticks)

\* C40: a tick whose tips report equals last_tips and a tick whose discovery fails
\* leave last_tips, the graph, the store, the cached tips and the pool-id channel as
\* they were; so does every step of a discovery that has not returned.
C40_FailedTickWritesNothing ==
    [][\A n \in Nodes :
          (TickSkipped(n) \/ (InDiscovery(n) /\ poller'[n] # poller[n] /\ ~DiscoveryReturns(n))) =>
              /\ poller'[n].last_tips = poller[n].last_tips
              /\ tree' = tree
              /\ db' = db
              /\ db_miner' = db_miner
              /\ CachedTips(caches') = CachedTips(caches)
              /\ pool_id_rx' = pool_id_rx]_vars

\* C40 witness: the only tick so far was a tick of node n whose tips report had an
\* active tip and differed from last_tips, and the only failure so far was a fetch of
\* its discovery: the poller waits for its next tick with the old last_tips, and
\* nothing of the tick is in the graph, the cached tips or the channel
C40_Witness ==
    \E n \in Nodes :
        /\ poller[n].pc = "idle"
        /\ poller[n].last_tips = <<>>
        /\ budget.ticks = 1
        /\ budget.faults = 1
        /\ \A m \in Nodes \ {n} : poller[m].pc = "version"
        /\ caches.node_data[n].version # VERSION_UNKNOWN
        /\ caches.node_data[n].reachable
        /\ hist.no_active = {}
        /\ caches.node_data[n].tips = <<>>
        /\ active[n] \notin DOMAIN tree.index
        /\ pool_id_rx = <<>>

(***************************************************************************)
(* A network whose only node is an Electrum server (specification          *)
(* SpecElectrum).  Electrum::tips reports the active tip only, and the     *)
(* capabilities select the batch branch of new_active_headers and the      *)
(* early return of new_nonactive_headers, so the one-by-one walk and the   *)
(* inactive walk have no step here.                                        *)
(***************************************************************************)
InitElectrum ==
    /\ active = [n \in {ElectrumNode} |-> BA]
    /\ db \in InitStores
    /\ db_miner = EmptyIndex
    /\ tree = load_treeinfos(db, db_miner)
    /\ caches = populate_cache_for(tree, {ElectrumNode})
    /\ pool_id_rx = <<>>
    /\ tipchanges = 0
    /\ poller = [n \in {ElectrumNode} |-> [AtTick([last_tips |-> <<>>]) EXCEPT !.pc = "version"]]
    /\ worker = WorkerIdle
    /\ budget = [ticks |-> 0, reorgs |-> 0, faults |-> 0]
    /\ hist = [unnotified |-> FALSE, tree_pending |-> {}, cache_ver |-> Len(tree.nodes),
               notified_ver |-> 0, recovered |-> {}]
    /\ locks = NoLocks
    /\ loader = Loaded(DOMAIN caches.node_data)

ElectrumStep(n) ==
    \/ LoadVersion(n)
    \/ TickTipsErr(n)
    \/ TickTipsOk(n)
    \/ BatchFetch(n)
    \/ BatchScan(n)
    \/ FetchFails(n)
    \/ InsertHeaders(n)
    \/ WriteDb(n)
    \/ WriteDbFails(n)
    \/ NodeTips(n)
    \/ TipHeights(n)
    \/ InterestingHeights(n)
    \/ StripTree(n)
    \/ RecentForks(n)
    \/ HeaderTree(n)
    \/ Broadcast(n)

NextElectrum ==
    \/ ElectrumStep(ElectrumNode)
    \/ NodeReorg(ElectrumNode)
    \/ WorkerStep

SpecElectrum == InitElectrum /\ [][NextElectrum]_vars

\* the statuses of the tips in the cache
CachedTipStatuses ==
    UNION {{caches.node_data[n].tips[i].status : i \in DOMAIN caches.node_data[n].tips} :
             n \in DOMAIN caches.node_data}

\* C19: with an Electrum server as the only node the fork list of the cache stays
\* empty, no vertex of the graph has more than one outgoing edge, and no cached tip
\* has status invalid, whatever the ticks and reorganisations of the node.
C19_ElectrumNeverForks ==
    /\ caches.forks = <<>>
    /\ \A v \in DOMAIN tree.nodes : OutDegree(tree, v) <= 1
    /\ "invalid" \notin CachedTipStatuses

\* C19 as amended: as long as the chain of the node has not reorganised, the fork list
\* stays empty and no vertex has more than one outgoing edge; in every state no cached
\* tip has status invalid.
C19_ElectrumNoForksWithoutReorg ==
    /\ budget.reorgs = 0 =>
          /\ caches.forks = <<>>
          /\ \A v \in DOMAIN tree.nodes : OutDegree(tree, v) <= 1
    /\ "invalid" \notin CachedTipStatuses

\* C19 witness: without a reorganisation, the poller has walked the chain down to
\* min_fork_height, and the header list and the tip of the node are in the cache
C19_Witness ==
    /\ budget.reorgs = 0
    /\ {BR, BP, BA} \subseteq DOMAIN tree.index
    /\ HashesOf(caches.header_infos_json) # {}
    /\ CachedTipStatuses = {"active"}
    /\ poller[ElectrumNode].pc = "idle"

(***************************************************************************)
(* update_cache on its own: the five CacheUpdate variants applied in any   *)
(* order to the cache of one network (specification SpecCache)             *)
(***************************************************************************)
\* the headers the updates are about
CacheHashes == {BA, BB}

\* the miners of a HeaderMiner update for a hash
MinersFor(h) == IF h = BA THEN IdentifyResults ELSE {"Foundry"}

\* the miner a header list carries for a hash: none yet, or an older one
ListMinersFor(h) == IF h = BA THEN {DEFAULT_EMPTY_MINER, MINER_UNKNOWN} ELSE {DEFAULT_EMPTY_MINER}

\* the header lists of a HeaderTree update: any of the headers, each with a miner
CacheLists ==
    UNION {{ {HeaderInfoJson(HeaderInfo(HeightOf(h), HeaderOf(h), f[h]), h, USIZE_MAX) : h \in S} :
               f \in {g \in [S -> {DEFAULT_EMPTY_MINER, MINER_UNKNOWN}] :
                         \A h \in S : g[h] \in ListMinersFor(h)} } :
           S \in SUBSET CacheHashes}

\* the node the node updates are about
CacheNode == CHOOSE n \in Nodes : \A m \in Nodes : n <= m

NoMiner == "none"

InitCache ==
    /\ active = [n \in Nodes |-> BA]
    /\ db = {}
    /\ db_miner = EmptyIndex
    /\ tree = EmptyTree
    /\ caches = populate_cache(tree)
    /\ pool_id_rx = <<>>
    /\ tipchanges = 0
    /\ poller = [n \in Nodes |-> AtTick([last_tips |-> <<>>])]
    /\ worker = WorkerIdle
    /\ budget = [ticks |-> 0, reorgs |-> 0, faults |-> 0]
    /\ hist = [last_miner |-> [h \in CacheHashes |-> NoMiner],
               since |-> [h \in CacheHashes |-> 0],
               after_tree |-> FALSE, spliced |-> {}]
    /\ locks = NoLocks
    /\ loader = Loaded(DOMAIN caches.node_data)

\* the history after an update that is not a HeaderTree and not a HeaderMiner
OtherUpdate == [hist EXCEPT !.after_tree = FALSE, !.spliced = {}]

\* update_cache(HeaderMiner{header_info})
CacheHeaderMiner ==
    /\ \E h \in CacheHashes : \E miner \in MinersFor(h) :
          /\ caches' = ApplyHeaderMiner(caches, HeaderInfo(HeightOf(h), HeaderOf(h), miner))
          /\ hist' = [hist EXCEPT
                         !.last_miner[h] = miner,
                         !.since = [k \in CacheHashes |->
                                       IF k = h THEN 0
                                       ELSE IF hist.since[k] < RECENT_MINERS_LIMIT
                                            THEN hist.since[k] + 1 ELSE hist.since[k]],
                         !.after_tree = FALSE, !.spliced = {}]
    /\ UNCHANGED <<active, tree, db, db_miner, pool_id_rx, tipchanges, poller, worker, budget, locks, loader>>

\* update_cache(HeaderTree{header_infos_json, forks})
CacheHeaderTree ==
    /\ \E list \in CacheLists :
          /\ caches' = ApplyHeaderTree(caches, list, <<>>)
          /\ hist' = [hist EXCEPT !.after_tree = TRUE,
                                  !.spliced = {e.hash : e \in list \ caches'.header_infos_json}]
    /\ UNCHANGED <<active, tree, db, db_miner, pool_id_rx, tipchanges, poller, worker, budget, locks, loader>>

\* update_cache(NodeTips{node_id, tips})
CacheNodeTips ==
    /\ \E tips \in {<<ActiveTipOf(CacheNode)>>, <<StaleTip, ActiveTipOf(CacheNode)>>} :
          caches' = ApplyNodeTips(caches, CacheNode, tips)
    /\ hist' = OtherUpdate
    /\ UNCHANGED <<active, tree, db, db_miner, pool_id_rx, tipchanges, poller, worker, budget, locks, loader>>

\* update_cache(NodeReachability{node_id, reachable})
CacheNodeReachability ==
    /\ \E reachable \in BOOLEAN : caches' = ApplyNodeReachability(caches, CacheNode, reachable)
    /\ hist' = OtherUpdate
    /\ UNCHANGED <<active, tree, db, db_miner, pool_id_rx, tipchanges, poller, worker, budget, locks, loader>>

\* update_cache(NodeVersion{node_id, version})
CacheNodeVersion ==
    /\ \E version \in {VERSION_UNKNOWN, "v27"} : caches' = ApplyNodeVersion(caches, CacheNode, version)
    /\ hist' = OtherUpdate
    /\ UNCHANGED <<active, tree, db, db_miner, pool_id_rx, tipchanges, poller, worker, budget, locks, loader>>

NextCache ==
    \/ CacheHeaderMiner
    \/ CacheHeaderTree
    \/ CacheNodeTips
    \/ CacheNodeReachability
    \/ CacheNodeVersion

SpecCache == InitCache /\ [][NextCache]_vars

\* the cache entry of hash h, if the header list has one
EntryOf(h) == CHOOSE e \in caches.header_infos_json : e.hash = h

\* C4: after a HeaderTree update that follows a HeaderMiner update for h, with h in the
\* new list, the entry of h carries the miner of the latest HeaderMiner update for h.
C4_SpliceAlways ==
    hist.after_tree =>
        \A e \in caches.header_infos_json :
            hist.last_miner[e.hash] # NoMiner => e.miner = hist.last_miner[e.hash]

\* C4 as amended: the same, as long as fewer than five HeaderMiner updates were applied
\* after the latest one for h (its entry is still in recent_miners).
C4_SpliceWhileRecent ==
    hist.after_tree =>
        \A e \in caches.header_infos_json :
            (hist.last_miner[e.hash] # NoMiner /\ hist.since[e.hash] < RECENT_MINERS_LIMIT) =>
                e.miner = hist.last_miner[e.hash]

\* C4 witness: a HeaderTree whose list had no or an older miner for A was applied after
\* HeaderMiner{A, Foundry} and a later HeaderMiner for B, and the entry of A reads Foundry
C4_Witness ==
    /\ hist.after_tree
    /\ BA \in hist.spliced
    /\ hist.last_miner[BA] = "Foundry"
    /\ hist.since[BA] > 0
    /\ EntryOf(BA).miner = "Foundry"

\* C20: recent_miners never has more than 5 entries, and a HeaderMiner update applied
\* to a full list drops exactly the oldest entry: the other four move up by one and
\* the new entry is the last.
C20_RecentMinersBounded ==
    [][/\ Len(caches'.recent_miners) <= RECENT_MINERS_LIMIT
       /\ (CacheHeaderMiner /\ Len(caches.recent_miners) = RECENT_MINERS_LIMIT) =>
              /\ Len(caches'.recent_miners) = RECENT_MINERS_LIMIT
              /\ SubSeq(caches'.recent_miners, 1, RECENT_MINERS_LIMIT - 1) = Tail(caches.recent_miners)
              /\ \E h \in CacheHashes :
                     caches'.recent_miners[RECENT_MINERS_LIMIT] = <<h, hist'.last_miner[h]>>]_vars

\* C20 witness: the list is full and the entry of a HeaderMiner update for A has been
\* pushed out by five later updates for B
C20_Witness ==
    /\ Len(caches.recent_miners) = RECENT_MINERS_LIMIT
    /\ hist.last_miner[BA] # NoMiner
    /\ hist.since[BA] = RECENT_MINERS_LIMIT
    /\ \A i \in DOMAIN caches.recent_miners : caches.recent_miners[i][1] = BB

\* C21: the entries of recent_miners are distinct by hash: a HeaderMiner update for a
\* hash already in the list leaves one entry for that hash, not two.
C21_RecentMinersDistinct ==
    \A i, j \in DOMAIN caches.recent_miners :
        caches.recent_miners[i][1] = caches.recent_miners[j][1] => i = j

(***************************************************************************)
(* Loading the configuration (specification SpecConfig): the program is    *)
(* started with any configuration of up to MaxNetworks networks of up to   *)
(* MaxNetworkNodes nodes each, with ids from ConfigIds.                    *)
(***************************************************************************)
MaxNetworks == 2

MaxNetworkNodes == 2

ConfigIds == {1, 2}

\* the lists over S of at most k elements
ListsUpTo(S, k) == UNION {[1..m -> S] : m \in 0..k}

TomlNodes == [id : ConfigIds, parses : BOOLEAN]

\* the network tables with at most k nodes
TomlNetworks(k) == [id : ConfigIds, nodes : ListsUpTo(TomlNodes, k)]

\* the configurations of at most n networks of at most k nodes
Configs(n, k) == ListsUpTo(TomlNetworks(k), n)

\* parse_config has not run yet
Unparsed == [status |-> "Unparsed", networks |-> <<>>]

InitConfig ==
    /\ active = [n \in Nodes |-> BA]
    /\ db = {}
    /\ db_miner = EmptyIndex
    /\ tree = EmptyTree
    /\ caches = populate_cache(tree)
    /\ pool_id_rx = <<>>
    /\ tipchanges = 0
    /\ poller = [n \in Nodes |-> AtTick([last_tips |-> <<>>])]
    /\ worker = WorkerIdle
    /\ budget = [ticks |-> 0, reorgs |-> 0, faults |-> 0]
    /\ hist = [unnotified |-> FALSE, tree_pending |-> {}, cache_ver |-> 0, notified_ver |-> 0]
    /\ locks = NoLocks
    /\ loader \in [config : Configs(MaxNetworks, MaxNetworkNodes), result : {Unparsed}]

\* load_config: parse_config on the configuration text
LoadConfig ==
    /\ loader.result = Unparsed
    /\ loader' = [loader EXCEPT !.result = parse_config(loader.config)]
    /\ UNCHANGED <<active, tree, db, db_miner, caches, pool_id_rx, tipchanges, poller, worker,
                   budget, hist, locks>>

NextConfig == LoadConfig

SpecConfig == InitConfig /\ [][NextConfig]_vars

\* every node table of the configuration is one parse_toml_node accepts
AllNodesParse(config) ==
    \A k \in DOMAIN config : \A i \in DOMAIN config[k].nodes : config[k].nodes[i].parses

\* two nodes of one network share an id
HasDuplicateNodeId(config) ==
    \E k \in DOMAIN config : \E i, j \in DOMAIN config[k].nodes :
        i < j /\ config[k].nodes[i].id = config[k].nodes[j].id

\* two networks share an id
HasDuplicateNetworkId(config) ==
    \E k, l \in DOMAIN config : k < l /\ config[k].id = config[l].id

\* the networks of a configuration as parse_config returns them
NetworksOf(config) ==
    [k \in DOMAIN config |->
        [id |-> config[k].id,
         nodes |-> [i \in DOMAIN config[k].nodes |-> config[k].nodes[i].id]]]

\* C23: loading a configuration whose node tables all parse fails with DuplicateNodeId
\* when two nodes of one network share an id, with DuplicateNetworkId when two networks
\* share an id (with one of the two when both happen) and with NoNetworks when the
\* networks list is empty; every other configuration is accepted with all its networks
\* and nodes, the same node id in two different networks included.
C23_DuplicateIdsRejected ==
    LET config == loader.config
        result == loader.result
    IN (result # Unparsed /\ AllNodesParse(config)) =>
          /\ config = <<>> => result.status = "NoNetworks"
          /\ (HasDuplicateNodeId(config) /\ ~HasDuplicateNetworkId(config)) =>
                 result.status = "DuplicateNodeId"
          /\ (HasDuplicateNetworkId(config) /\ ~HasDuplicateNodeId(config)) =>
                 result.status = "DuplicateNetworkId"
          /\ (HasDuplicateNetworkId(config) /\ HasDuplicateNodeId(config)) =>
                 result.status \in {"DuplicateNodeId", "DuplicateNetworkId"}
          /\ (config # <<>> /\ ~HasDuplicateNodeId(config) /\ ~HasDuplicateNetworkId(config)) =>
                 result = [status |-> "Ok", networks |-> NetworksOf(config)]

\* C23 witness: a configuration of two networks that both have a node with id 1 has
\* been loaded and accepted
C23_Witness ==
    /\ loader.result.status = "Ok"
    /\ Len(loader.config) = 2
    /\ \A k \in DOMAIN loader.config :
           \E i \in DOMAIN loader.config[k].nodes : loader.config[k].nodes[i].id = 1

(***************************************************************************)
(* strip_tree and recent_forks on their own (specification SpecStrip): one *)
(* call of either on any graph of up to MaxGraphNodes headers, or of two   *)
(* roots with two children each.  The                                      *)
(* headers have the hashes 1..k, each with an earlier header or none as    *)
(* its parent; a header without parent has a height from RootHeights and a *)
(* child the height of its parent plus one.  The graph is the one          *)
(* load_treeinfos builds from the headers, in ascending or descending      *)
(* order of their hashes.                                                  *)
(***************************************************************************)
MaxGraphNodes == 4

RootHeights == {0, 1, 4}

\* the heights a tip of a node may have
TipHeightChoices == {0, 3, 6}

\* the values of max_interesting_heights and of how_many
LimitChoices == 0..2

RECURSIVE HeightUnder(_, _, _)
\* the height of header i when prev gives the parents and root_height the heights of the roots
HeightUnder(prev, root_height, i) ==
    IF prev[i] = 0 THEN root_height[i] ELSE HeightUnder(prev, root_height, prev[i]) + 1

\* the headers 1..k of a forest
ForestHeaders(prev, root_height) ==
    [i \in DOMAIN prev |->
        HeaderInfo(HeightUnder(prev, root_height, i), [prev_blockhash |-> prev[i], nonce |-> i],
                   DEFAULT_EMPTY_MINER)]

\* the graph load_treeinfos builds from a list of headers
LoadedGraph(hs) == ConnectAll(LoadAdd(EmptyTree, hs), hs)

\* the parent and root height functions of the forests of k headers
ForestShapes(k) ==
    {f \in [prev : [1..k -> 0..(k - 1)], root_height : [1..k -> RootHeights \cup {-1}]] :
        \A i \in 1..k : /\ f.prev[i] < i
                         /\ (f.root_height[i] = -1) <=> (f.prev[i] # 0)}

\* the forests of six headers with two roots that both have two children
TwoForkedRoots ==
    {[prev |-> <<0, 1, 1, 0, 4, 4>>, root_height |-> <<a, -1, -1, b, -1, -1>>] :
        a, b \in RootHeights}

\* the graphs of at most n headers, and those of two forked roots
StripGraphs(n) ==
    UNION {{LoadedGraph(ForestHeaders(f.prev, f.root_height)),
            LoadedGraph(Reverse(ForestHeaders(f.prev, f.root_height)))} :
           f \in TwoForkedRoots \cup UNION {ForestShapes(k) : k \in 0..n}}

\* the arguments of the call: strip_tree(tree, max_interesting_heights, tip_heights)
\* or recent_forks(tree, how_many)
StripCalls ==
    [call : {"strip_tree"}, tip_heights : {T \in SUBSET TipHeightChoices : Cardinality(T) <= 2},
     max_interesting_heights : LimitChoices, how_many : {0}, returned : {FALSE}]
    \cup
    [call : {"recent_forks"}, tip_heights : {{}}, max_interesting_heights : {0},
     how_many : LimitChoices, returned : {FALSE}]

\* the task that makes the call
StripCaller == CHOOSE n \in Nodes : \A m \in Nodes : n <= m

InitStrip ==
    /\ active = [n \in Nodes |-> BA]
    /\ db = {}
    /\ db_miner = EmptyIndex
    /\ tree \in StripGraphs(MaxGraphNodes)
    /\ caches = populate_cache(EmptyTree)
    /\ pool_id_rx = <<>>
    /\ tipchanges = 0
    /\ poller = [n \in Nodes |-> AtTick([last_tips |-> <<>>])]
    /\ worker = WorkerIdle
    /\ budget = [ticks |-> 0, reorgs |-> 0, faults |-> 0]
    /\ hist \in StripCalls
    /\ locks = NoLocks
    /\ loader = Loaded(Nodes)

\* strip_tree(&tree, max_interesting_heights, tip_heights): the list it returns, or the panic
CallStripTree ==
    LET r == strip_tree(tree, hist.max_interesting_heights, hist.tip_heights) IN
    /\ hist.call = "strip_tree" /\ ~hist.returned
    /\ poller' = [poller EXCEPT ![StripCaller] =
                     IF r.panic THEN [@ EXCEPT !.pc = "panicked"] ELSE [@ EXCEPT !.hij = r.headers]]
    /\ hist' = [hist EXCEPT !.returned = TRUE]
    /\ UNCHANGED <<active, tree, db, db_miner, caches, pool_id_rx, tipchanges, worker, budget,
                   locks, loader>>

\* recent_forks(&tree, how_many)
CallRecentForks ==
    /\ hist.call = "recent_forks" /\ ~hist.returned
    /\ poller' = [poller EXCEPT ![StripCaller].forks = recent_forks(tree, hist.how_many)]
    /\ hist' = [hist EXCEPT !.returned = TRUE]
    /\ UNCHANGED <<active, tree, db, db_miner, caches, pool_id_rx, tipchanges, worker, budget,
                   locks, loader>>

NextStrip == CallStripTree \/ CallRecentForks

SpecStrip == InitStrip /\ [][NextStrip]_vars

\* a call of strip_tree has returned or panicked
StripReturned == hist.call = "strip_tree" /\ hist.returned

\* the k largest elements of a set of heights
Largest(S, k) == {x \in S : Cardinality({y \in S : y > x}) < k}

\* the interesting heights of the call, by their definition
InterestingOf(t, mih, tips) ==
    LET heights  == {t.nodes[v].height : v \in DOMAIN t.nodes}
        occupied == {h \in heights : \E v, w \in DOMAIN t.nodes :
                                        v # w /\ t.nodes[v].height = h /\ t.nodes[w].height = h}
    IN Largest(occupied \cup tips \cup {h \in heights : \A g \in heights : g <= h}, mih)

\* the vertices of the graph the call has to emit
EmittedOf(t, mih, tips) ==
    {v \in DOMAIN t.nodes :
        \E d \in {-1, 0, 1, 2} : t.nodes[v].height + d \in InterestingOf(t, mih, tips)}

\* C26: strip_tree emits exactly the vertices whose height h has h-1, h, h+1 or h+2
\* among the interesting heights, the max_interesting_heights largest elements of
\* (heights with more than one vertex) \cup tip_heights \cup {max height}; with
\* max_interesting_heights = 0 or an empty graph it returns the empty list; it does
\* not panic.
C26_StripEmitsInteresting ==
    StripReturned =>
        LET emit == EmittedOf(tree, hist.max_interesting_heights, hist.tip_heights)
            hij  == poller[StripCaller].hij
        IN /\ poller[StripCaller].pc # "panicked"
           /\ Cardinality(hij) = Cardinality(emit)
           /\ {[hash |-> e.hash, height |-> e.height, prev_blockhash |-> e.prev_blockhash] : e \in hij}
                 = {[hash |-> block_hash(tree.nodes[v].header), height |-> tree.nodes[v].height,
                     prev_blockhash |-> tree.nodes[v].header.prev_blockhash] : v \in emit}
           /\ (hist.max_interesting_heights = 0 \/ tree.nodes = <<>>) => hij = {}

\* C26 witness: a call with more candidate heights than max_interesting_heights has
\* returned some of the headers of the graph and dropped others
C26_Witness ==
    /\ StripReturned
    /\ hist.max_interesting_heights = 1
    /\ hist.tip_heights # {}
    /\ poller[StripCaller].hij # {}
    /\ Cardinality(poller[StripCaller].hij) < Len(tree.nodes)
    /\ \E v, w \in DOMAIN tree.nodes : v # w /\ tree.nodes[v].height = tree.nodes[w].height

\* the entries of a stripped list that are roots
RootEntries(hij) == {e \in hij : e.prev_id = USIZE_MAX}

RECURSIVE ReachesRoot(_, _, _)
\* following prev_id from entry e reaches a root within fuel steps
ReachesRoot(hij, e, fuel) ==
    IF e.prev_id = USIZE_MAX THEN TRUE
    ELSE IF fuel = 0 THEN FALSE
    ELSE \E p \in hij : p.id = e.prev_id /\ ReachesRoot(hij, p, fuel - 1)

\* C27: a non-empty strip_tree result is one connected tree: exactly one entry has
\* prev_id = usize::MAX, and following prev_id from every other entry reaches it
\* without a cycle.
C27_StrippedIsOneTree ==
    (StripReturned /\ poller[StripCaller].hij # {}) =>
        LET hij == poller[StripCaller].hij IN
        /\ Cardinality(RootEntries(hij)) = 1
        /\ \A e \in hij : ReachesRoot(hij, e, Cardinality(hij))

\* the entry of the graph parent of entry e is in the list
ParentEmitted(hij, e) == \E p \in hij : p.hash = e.prev_blockhash

\* C28: in the strip_tree output ids are unique, every prev_id is usize::MAX or the id
\* of another entry, an entry whose graph parent is emitted has that parent's id as
\* prev_id (so a synthetic edge only enters a header that the filter left without
\* parent), and the call does not panic.
C28_StrippedEdgesSound ==
    StripReturned =>
        LET hij == poller[StripCaller].hij IN
        /\ poller[StripCaller].pc # "panicked"
        /\ \A e, f \in hij : e.id = f.id => e = f
        /\ \A e \in hij : e.prev_id = USIZE_MAX \/ \E p \in hij : p # e /\ p.id = e.prev_id
        /\ \A e, p \in hij : p.hash = e.prev_blockhash => e.prev_id = p.id

\* C28 witness: a returned list has a true edge and a synthetic edge: an entry whose
\* parent is emitted, and an entry without emitted parent that is linked to another one
C28_Witness ==
    /\ StripReturned
    /\ \E e \in poller[StripCaller].hij : ParentEmitted(poller[StripCaller].hij, e)
    /\ \E e \in poller[StripCaller].hij :
           /\ ~ParentEmitted(poller[StripCaller].hij, e)
           /\ e.prev_id # USIZE_MAX
    /\ Cardinality(poller[StripCaller].hij) < Len(tree.nodes)

\* a call of recent_forks has returned
ForksReturned == hist.call = "recent_forks" /\ hist.returned

\* the vertices of the graph with more than one outgoing edge
ForkVertices(t) == {v \in DOMAIN t.nodes : Len(OutgoingOf(t, v)) > 1}

\* C29: recent_forks returns one fork per vertex with out-degree > 1, none twice, with
\* exactly the direct successors as children, ordered by the height of the common
\* header descending and cut to the how_many forks of the greatest heights.
C29_RecentForksComplete ==
    ForksReturned =>
        LET forks   == poller[StripCaller].forks
            commons == {forks[i].common : i \in DOMAIN forks}
            all     == {tree.nodes[v] : v \in ForkVertices(tree)}
        IN /\ \A i, j \in DOMAIN forks : forks[i].common = forks[j].common => i = j
           /\ commons \subseteq all
           /\ Len(forks) = IF Cardinality(all) < hist.how_many THEN Cardinality(all)
                            ELSE hist.how_many
           /\ \A i \in DOMAIN forks :
                  LET v == tree.index[block_hash(forks[i].common.header)] IN
                  /\ Len(forks[i].children) = Len(OutgoingOf(tree, v))
                  /\ Range(forks[i].children) = {tree.nodes[w] : w \in Range(OutgoingOf(tree, v))}
           /\ \A i, j \in DOMAIN forks : i < j => forks[i].common.height >= forks[j].common.height
           /\ \A c \in commons : \A o \in all \ commons : o.height <= c.height

\* C29 witness: the graph has two roots and two fork vertices at different heights, and
\* a call with how_many = 1 has returned the higher one
C29_Witness ==
    /\ ForksReturned
    /\ hist.how_many = 1
    /\ Len(Roots(tree)) = 2
    /\ Cardinality({tree.nodes[v].height : v \in ForkVertices(tree)}) = 2
    /\ Len(poller[StripCaller].forks) = 1
    /\ \A v \in ForkVertices(tree) :
           tree.nodes[v].height <= poller[StripCaller].forks[1].common.height

(***************************************************************************)
(* The lock protocol (specification SpecLocks): every task as the sequence *)
(* of mutex acquisitions, releases and awaits its code performs.  A guard  *)
(* is released where its scope ends.                                       *)
(***************************************************************************)
Mutexes == {"graph", "caches", "store"}

Lock(m) == <<"lock", m>>

Unlock(m) == <<"unlock", m>>

\* an await on a node (RPC, REST, Electrum)
Fetch == <<"fetch", "node">>

\* anything else that holds no guard of its own: a channel send or receive, a timer
Other == <<"other", "none">>

\* update_cache, is_node_reachable and tip_heights: the caches guard for the body
update_cache_ops == <<Lock("caches"), Unlock("caches")>>

is_node_reachable_ops == <<Lock("caches"), Unlock("caches")>>

tip_heights_ops == <<Lock("caches"), Unlock("caches")>>

\* sorted_interesting_heights, strip_tree, recent_forks, insert_new_headers_into_tree
sorted_interesting_heights_ops == <<Lock("graph"), Unlock("graph")>>

strip_tree_ops == sorted_interesting_heights_ops \o <<Lock("graph"), Unlock("graph")>>

recent_forks_ops == <<Lock("graph"), Unlock("graph")>>

insert_ops == <<Lock("graph"), Unlock("graph")>>

\* setup_db, load_header_infos, write_to_db, update_miner: the store guard for the body
setup_db_ops == <<Lock("store"), Unlock("store")>>

load_header_infos_ops == <<Lock("store"), Unlock("store")>>

write_to_db_ops == <<Lock("store"), Unlock("store")>>

update_miner_ops == <<Lock("store"), Unlock("store")>>

\* new_active_headers, one pass of the loop: block_hash, batch fetch, a guard per
\* header; or block_hash, the guarded index lookup, the header fetch
new_active_headers_ops(n) ==
    IF batch_header_fetch(n) THEN <<Fetch, Fetch, Lock("graph"), Unlock("graph")>>
    ELSE <<Fetch, Lock("graph"), Unlock("graph"), Fetch>>

\* new_nonactive_headers, one pass of the inner loop
new_nonactive_headers_ops == <<Lock("graph"), Unlock("graph"), Fetch>>

\* the poller task: the version load, then the loop body
PollerStartOps == <<Fetch>> \o update_cache_ops

PollerLoopOps(n) ==
    <<Other, Fetch>> \o is_node_reachable_ops \o update_cache_ops
    \o new_active_headers_ops(n) \o new_nonactive_headers_ops
    \o <<Other>> \o insert_ops \o write_to_db_ops \o update_cache_ops
    \o tip_heights_ops \o strip_tree_ops \o recent_forks_ops \o update_cache_ops \o <<Other>>

\* the worker holds the graph guard over the update of the vertex and the store guard
\* over update_miner at the same time
WorkerHoldingGraphOps == <<Lock("graph")>> \o update_miner_ops \o <<Unlock("graph")>>

\* the worker's write back: the graph guard in its own block, then db::update_miner
WorkerWriteBackOps == <<Lock("graph"), Unlock("graph")>> \o update_miner_ops

\* the pool-id worker: recv_many, the index lookup, the clone, the coinbase fetches,
\* the write back, the HeaderMiner update
WorkerLoopOps ==
    <<Other, Lock("graph"), Unlock("graph"), Lock("graph"), Unlock("graph"), Fetch>>
    \o WorkerWriteBackOps \o update_cache_ops

\* the one-shot miner sweep: sleep, tip_heights, sorted_interesting_heights, then the
\* graph guard over the sends until the task ends
SweepOps ==
    <<Other>> \o tip_heights_ops \o sorted_interesting_heights_ops
    \o <<Lock("graph"), Other, Unlock("graph")>>

\* startup: setup_db, load_treeinfos, populate_cache
StartupOps ==
    setup_db_ops \o load_header_infos_ops \o recent_forks_ops \o strip_tree_ops
    \o <<Lock("caches"), Unlock("caches")>>

\* an HTTP handler (data_response, the rss feeds): the caches guard for the reply
HandlerLoopOps == <<Other, Lock("caches"), Unlock("caches")>>

\* the tasks: a poller per node, and one task of every other kind
PollerTask(n) == <<"poller", n>>

WorkerTask == <<"worker", 0>>

SweepTask == <<"sweep", 0>>

StartupTask == <<"startup", 0>>

HandlerTask == <<"handler", 0>>

Tasks == {PollerTask(n) : n \in Nodes} \cup {WorkerTask, SweepTask, StartupTask, HandlerTask}

NoTask == <<"nobody", 0>>

\* the operations a task performs once, and those it then repeats for ever
StartOps(t) ==
    IF t[1] = "poller" THEN PollerStartOps
    ELSE IF t = SweepTask THEN SweepOps
    ELSE IF t = StartupTask THEN StartupOps
    ELSE <<>>

LoopOps(t) ==
    IF t[1] = "poller" THEN PollerLoopOps(t[2])
    ELSE IF t = WorkerTask THEN WorkerLoopOps
    ELSE IF t = HandlerTask THEN HandlerLoopOps
    ELSE <<>>

Ops(t) == StartOps(t) \o LoopOps(t)

Finished(t) == locks.at[t] > Len(Ops(t))

OpAt(t) == Ops(t)[locks.at[t]]

\* the position after the current operation: the loop starts over at its end
After(t) ==
    IF locks.at[t] = Len(Ops(t)) /\ LoopOps(t) # <<>> THEN Len(StartOps(t)) + 1
    ELSE locks.at[t] + 1

HeldBy(t) == {m \in Mutexes : locks.owner[m] = t}

\* main spawns the other tasks after load_treeinfos and populate_cache
Spawned(t) == t = StartupTask \/ locks.at[StartupTask] > Len(StartupOps)

Blocked(t) == OpAt(t)[1] = "lock" /\ locks.owner[OpAt(t)[2]] # NoTask

InitLocks ==
    /\ active = [n \in Nodes |-> BA]
    /\ db = {}
    /\ db_miner = EmptyIndex
    /\ tree = EmptyTree
    /\ caches = populate_cache(tree)
    /\ pool_id_rx = <<>>
    /\ tipchanges = 0
    /\ poller = [n \in Nodes |-> AtTick([last_tips |-> <<>>])]
    /\ worker = WorkerIdle
    /\ budget = [ticks |-> 0, reorgs |-> 0, faults |-> 0]
    /\ hist = [unnotified |-> FALSE, tree_pending |-> {}, cache_ver |-> 0, notified_ver |-> 0]
    /\ locks = [owner |-> [m \in Mutexes |-> NoTask], at |-> [t \in Tasks |-> 1]]
    /\ loader = Loaded(Nodes)

\* mutex.lock().await returns: the mutex was free
Acquire(t) ==
    /\ Spawned(t) /\ ~Finished(t)
    /\ OpAt(t)[1] = "lock"
    /\ locks.owner[OpAt(t)[2]] = NoTask
    /\ locks' = [locks EXCEPT !.owner[OpAt(t)[2]] = t, !.at[t] = After(t)]
    /\ UNCHANGED <<active, tree, db, db_miner, caches, pool_id_rx, tipchanges, poller, worker, budget, hist, loader>>

\* the guard is dropped
Release(t) ==
    /\ Spawned(t) /\ ~Finished(t)
    /\ OpAt(t)[1] = "unlock"
    /\ locks' = [locks EXCEPT !.owner[OpAt(t)[2]] = NoTask, !.at[t] = After(t)]
    /\ UNCHANGED <<active, tree, db, db_miner, caches, pool_id_rx, tipchanges, poller, worker, budget, hist, loader>>

\* an await on a node, a channel or a timer completes
Proceed(t) ==
    /\ Spawned(t) /\ ~Finished(t)
    /\ OpAt(t)[1] \in {"fetch", "other"}
    /\ locks' = [locks EXCEPT !.at[t] = After(t)]
    /\ UNCHANGED <<active, tree, db, db_miner, caches, pool_id_rx, tipchanges, poller, worker, budget, hist, loader>>

NextLocks == \E t \in Tasks : Acquire(t) \/ Release(t) \/ Proceed(t)

SpecLocks == InitLocks /\ [][NextLocks]_vars

\* C8: no task holds two of the mutexes at once, no task awaits a node while it holds
\* one, and some task can always take a step (the tasks cannot deadlock on the mutexes).
C8_LockDiscipline ==
    /\ \A t \in Tasks : Cardinality(HeldBy(t)) <= 1
    /\ \A t \in Tasks : (~Finished(t) /\ OpAt(t)[1] = "fetch") => HeldBy(t) = {}
    /\ \A t \in Tasks : (~Finished(t) /\ OpAt(t)[1] = "lock") => HeldBy(t) = {}
    /\ \E t \in Tasks : Spawned(t) /\ ~Finished(t) /\ ~Blocked(t)

\* C8 witness: all three mutexes are held, by three tasks, a poller and the worker
\* among them, while another task waits for one of them
C8_Witness ==
    /\ \A m \in Mutexes : locks.owner[m] # NoTask
    /\ \E n \in Nodes : HeldBy(PollerTask(n)) # {}
    /\ HeldBy(WorkerTask) # {}
    /\ \E t \in Tasks : ~Finished(t) /\ Blocked(t)

(***************************************************************************)
(* The pool-id worker and the one-shot miner sweep (specification          *)
(* SpecWorker): the graph as loaded from a store whose headers have all    *)
(* kinds of miner strings, the hashes the pollers have sent still in the   *)
(* channel (a hash twice if two pollers sent it, the hash of a header that *)
(* its poller has not inserted yet), the worker and the sweep task.  The   *)
(* answers of the nodes to the last identification are kept in hist.       *)
(***************************************************************************)
\* hashes in the channel at the start
MaxQueued == 2

\* the headers of the store: R, P and A; B is known to a poller only
WorkerStoreBlocks == {BR, BP, BA}

WorkerStore ==
    write_to_db({}, [i \in 1..3 |-> HeaderInfo(i + 1, HeaderOf(i + 1), DEFAULT_EMPTY_MINER)])

\* the miner columns of the store: no miner, Unknown or a pool for every header
StoredMiners == UNION {[S -> IdentifyResults] : S \in SUBSET WorkerStoreBlocks}

\* the hashes the pollers have sent
QueuedHashes(k) == ListsUpTo({BP, BA, BB}, k)

\* the one-shot task before its sleep ends
SweepIdle == [pc |-> "sleep", tip_heights |-> {}, interesting |-> {}]

InitWorker ==
    /\ active = [n \in Nodes |-> BA]
    /\ db = WorkerStore
    /\ db_miner \in StoredMiners
    /\ tree = load_treeinfos(db, db_miner)
    /\ caches = populate_cache(tree)
    /\ pool_id_rx \in QueuedHashes(MaxQueued)
    /\ tipchanges = 0
    /\ poller = [t \in {SweepTask} |-> SweepIdle]
    /\ worker = WorkerIdle
    /\ budget = [ticks |-> 0, reorgs |-> 0, faults |-> 0]
    /\ hist = [unnotified |-> FALSE, coinbase |-> [n \in Nodes |-> COINBASE_ERR]]
    /\ locks = NoLocks
    /\ loader = Loaded(Nodes)

\* the sweep after its sleep: tip_heights(network.id, &caches)
SweepTipHeights ==
    /\ poller[SweepTask].pc = "sleep"
    /\ poller' = [poller EXCEPT ![SweepTask].pc = "interesting",
                                ![SweepTask].tip_heights = tip_heights(caches)]
    /\ UNCHANGED <<active, tree, db, db_miner, caches, pool_id_rx, tipchanges, worker, budget, hist, locks, loader>>

\* headertree::sorted_interesting_heights of the sweep
SweepInteresting ==
    /\ poller[SweepTask].pc = "interesting"
    /\ poller' = [poller EXCEPT ![SweepTask].pc = "send", ![SweepTask].tip_heights = {},
                                ![SweepTask].interesting = sorted_interesting_heights(
                                     tree, max_interesting_heights, poller[SweepTask].tip_heights)]
    /\ UNCHANGED <<active, tree, db, db_miner, caches, pool_id_rx, tipchanges, worker, budget, hist, locks, loader>>

\* the height filter of the sweep
SweepKeeps(interesting, h) ==
    \/ h \in interesting
    \/ (h + 1) \in interesting
    \/ (h + 2) \in interesting
    \/ (Max(h, 1) - 1) \in interesting

\* the sends of the sweep, under one graph guard: every vertex without an identified
\* miner near an interesting height; the task ends
SweepSend ==
    LET picked == SelectSeq(tree.nodes,
                            LAMBDA w : IsUnidentified(w.miner)
                                       /\ SweepKeeps(poller[SweepTask].interesting, w.height))
    IN
    /\ poller[SweepTask].pc = "send"
    /\ pool_id_rx' = pool_id_rx \o Hashes(picked)
    /\ poller' = [poller EXCEPT ![SweepTask] = [SweepIdle EXCEPT !.pc = "done"]]
    /\ UNCHANGED <<active, tree, db, db_miner, caches, tipchanges, worker, budget, hist, locks, loader>>

NextWorker ==
    \/ SweepTipHeights
    \/ SweepInteresting
    \/ SweepSend
    \/ WorkerStep

SpecWorker == InitWorker /\ [][NextWorker]_vars

\* the answer of a node names a pool
IsPool(answer) == answer \notin {COINBASE_ERR, NO_POOL}

C33_MinerOnlyForward ==
    [][\A v \in DOMAIN tree.nodes :
          /\ v \in DOMAIN tree'.nodes
          /\ tree'.nodes[v].header = tree.nodes[v].header
          /\ tree'.nodes[v].height = tree.nodes[v].height
          /\ tree.nodes[v].miner \notin {DEFAULT_EMPTY_MINER, MINER_UNKNOWN} =>
                tree'.nodes[v].miner = tree.nodes[v].miner
          /\ tree.nodes[v].miner # DEFAULT_EMPTY_MINER =>
                tree'.nodes[v].miner # DEFAULT_EMPTY_MINER]_vars

\* C33 witness: the worker has given a vertex a pool name in this run (the name is
\* among the recent miners), the sweep has run, and the worker is at the lookup of
\* the same hash once more
C33_Witness ==
    /\ worker.pc = "lookup"
    /\ poller[SweepTask].pc = "done"
    /\ Head(worker.buffer) \in DOMAIN tree.index
    /\ tree.nodes[tree.index[Head(worker.buffer)]].miner = "Foundry"
    /\ \E i \in DOMAIN caches.recent_miners :
          caches.recent_miners[i] = <<Head(worker.buffer), "Foundry">>

====
